---- MODULE Spec2Model ----
(***************************************************************************)
(* The tabular extraction engine of the PROSEGUR consolidation scripts:    *)
(* the row-scanning loops of the ledger parsers (comsol.py: get_ec_atm,    *)
(* get_ec_bultos_atm, get_ec_banco, get_ec_bultos_bco) and of the          *)
(* inventory parsers (prosegur_unificado_v4_2.py and                       *)
(* Consolidado_mejorado.py: get_inv_atm).                                  *)
(*                                                                         *)
(* A text is a tuple of one-character strings, so that strip, upper,       *)
(* substring search and the regular expressions of the parsers are         *)
(* computed character by character.  A row is a tuple of cell texts, a     *)
(* grid a tuple of rows.                                                   *)
(***************************************************************************)
EXTENDS Integers, Sequences, FiniteSets, TLC

VARIABLES
    tipo,            \* which parser runs: EC_ATM, EC_BULTOS_ATM, EC_BANCO, EC_BULTOS_BCO, INV_ATM
    descartar_usd_cero,                \* parameter of get_ec_bultos_atm
    doc,             \* the workbook read: a tuple of sheets [nombre, filas], filas a tuple of rows
    hoja,            \* number of the sheet being scanned (1-based)
    i_fila,          \* number of rows of the current sheet the row loop has iterated over
    pc,              \* position of the parser: "filas" inside the row loop, "fin" after it
    agencia, fecha_archivo, ing_egr, motivo_actual,
    saldo_ant_usd, saldo_ant_pyg,      \* get_ec_atm, get_ec_bultos_atm
    saldo_anterior, moneda_actual,     \* get_ec_banco, get_ec_bultos_bco
    registros,       \* the records appended so far
    origen,          \* origen[k]: <<sheet, row number>> of the row that appended registros[k]
    previa,          \* the parse state the previous sheet ended with (bank parsers)
    variante, row_start, row_end,      \* inventory: which script, and the block located
    cur_divisa, cur_agrup, cur_tipo,   \* inventory: sticky classifiers
    denom_cols,      \* denom_cols[k]: <<row index, denomination column>> of inventory line k
    pendientes,      \* main: the pending documents, in the order they are dispatched
    i_doc,           \* main: number of pending documents dispatched so far
    resultados,      \* main: what _dispatch_and_process got for each document dispatched
    pc_main,         \* main: "bucle" in the loop over pendientes, "fin", or "excepcion"
    df_in,      \* output formatting: the table handed in, [columns, filas]
    df_out,          \* output formatting: the table returned
    pc_df,           \* output formatting: "entrada" before the call, "salida" after it
    fila_saldo,      \* _extraer_saldos_desde_fila: the strip_cells handed in
    valores,         \* _extraer_saldos_desde_fila: the list returned
    pc_saldos,       \* _extraer_saldos_desde_fila: "entrada" before the call, "salida" after
    clasificacion,   \* get_ec_banco of prosegur_unificado_v4_2.py: the statement category
    current_section, current_motivo,   \* parse_ec_efect_bco_xlsx of version_final_mod_2.py
    extra_cliente,   \* parse_ec_efect_bco_xlsx: the client suffix of the sheet
    started,         \* parse_ec_efect_atm_xlsx, parse_ec_bultos_atm_xlsx: a marker was read
    fn,              \* a function called on its own: its name
    args,            \* the arguments handed to it; for run of procte.py, what it finds
    ret,             \* what it returned; for run of procte.py, what it has done so far
    pc_fn            \* "entrada" before the call, "salida" after it; "cargas" inside run

varsEC == <<agencia, fecha_archivo, ing_egr, motivo_actual, saldo_ant_usd, saldo_ant_pyg,
            saldo_anterior, moneda_actual, previa>>
varsInv == <<variante, row_start, row_end, cur_divisa, cur_agrup, cur_tipo, denom_cols>>
varsMain == <<pendientes, i_doc, resultados, pc_main>>
varsDf == <<df_in, df_out, pc_df>>
varsSaldos == <<fila_saldo, valores, pc_saldos>>
varsBcoMas == <<clasificacion, current_section, current_motivo, extra_cliente, started>>
varsFn == <<fn, args, ret, pc_fn>>
varsResto == <<varsSaldos, varsBcoMas, varsFn>>
varsOtros == <<varsMain, varsDf, varsResto>>
varsParser ==
    <<tipo, descartar_usd_cero, doc, hoja, i_fila, pc, registros, origen, varsEC, varsInv>>
vars == <<varsParser, varsOtros>>

\* Python's None where an index is expected (indices are 1-based here)
None == 0

(***************************************************************************)
(* Characters and the string built-ins the parsers use.                    *)
(***************************************************************************)
Digitos == {"0","1","2","3","4","5","6","7","8","9"}
Minusculas ==
    <<"a","b","c","d","e","f","g","h","i","j","k","l","m","n","o","p","q","r","s","t",
      "u","v","w","x","y","z","á","é","í","ó","ú","ñ">>
Mayusculas ==
    <<"A","B","C","D","E","F","G","H","I","J","K","L","M","N","O","P","Q","R","S","T",
      "U","V","W","X","Y","Z","Á","É","Í","Ó","Ú","Ñ">>
ConAcento == <<"á","é","í","ó","ú","ñ","Á","É","Í","Ó","Ú","Ñ">>
SinAcento == <<"a","e","i","o","u","n","A","E","I","O","U","N">>

Esta(seq, c) == \E i \in 1..Len(seq) : seq[i] = c
Pos(seq, c) == CHOOSE i \in 1..Len(seq) : seq[i] = c

isspace(c) == c = " "
isdigit(c) == c \in Digitos
\* \w of the re module: letters (accented ones too), digits and the underscore
EsCharPalabra(c) == Esta(Minusculas, c) \/ Esta(Mayusculas, c) \/ isdigit(c) \/ c = "_"

upper(s) == [i \in 1..Len(s) |-> IF Esta(Minusculas, s[i]) THEN Mayusculas[Pos(Minusculas, s[i])]
                                                          ELSE s[i]]

_strip_accents(s) == [i \in 1..Len(s) |-> IF Esta(ConAcento, s[i]) THEN SinAcento[Pos(ConAcento, s[i])]
                                                                   ELSE s[i]]

RECURSIVE lstrip(_)
lstrip(s) == IF s # <<>> /\ isspace(Head(s)) THEN lstrip(Tail(s)) ELSE s

RECURSIVE rstrip(_)
rstrip(s) == IF s # <<>> /\ isspace(s[Len(s)]) THEN rstrip(SubSeq(s, 1, Len(s) - 1)) ELSE s

strip(s) == rstrip(lstrip(s))

\* needle in haystack
Contiene(h, n) == \E i \in 0..(Len(h) - Len(n)) : SubSeq(h, i + 1, i + Len(n)) = n

\* the places (1-based) where needle occurs in haystack
Apariciones(h, n) == {i \in 1..(Len(h) - Len(n) + 1) : SubSeq(h, i, i + Len(n) - 1) = n}

Min(S) == CHOOSE x \in S : \A y \in S : x <= y

\* ' '.join(parts)
RECURSIVE join(_)
join(parts) ==
    IF parts = <<>> THEN <<>>
    ELSE IF Len(parts) = 1 THEN parts[1]
    ELSE parts[1] \o <<" ">> \o join(Tail(parts))

\* re.search(r'\d', v)
TieneDigito(v) == \E i \in 1..Len(v) : isdigit(v[i])

TodosDigitos(s) == \A i \in 1..Len(s) : isdigit(s[i])

(***************************************************************************)
(* The texts the ledger parsers look for.                                  *)
(***************************************************************************)
ETIQUETA_SALDO == <<"S","A","L","D","O"," ","A","N","T","E","R","I","O","R">>
TXT_PROSEGUR ==
    <<"P","R","O","S","E","G","U","R"," ","P","A","R","A","G","U","A","Y"," ","S",".","A",
      ".">>
TXT_ESTADO == <<"E","S","T","A","D","O"," ","D","E"," ","C","U","E","N","T","A"," ","D","E">>
TXT_ESTADO_BULTOS_ATM ==
    <<"E","S","T","A","D","O"," ","D","E"," ","C","U","E","N","T","A"," ","D","E"," ","B",
      "U","L","T","O","S"," ","D","E"," ","A","T","M">>
TXT_INGRESOS == <<"I","N","G","R","E","S","O","S">>
TXT_EGRESOS == <<"E","G","R","E","S","O","S">>
TXT_INFORME == <<"I","N","F","O","R","M","E"," ","D","E"," ","P","R","O","C","E","S","O","S">>
TXT_TOTAL == <<"T","O","T","A","L">>
TXT_SUBTOTAL == <<"S","U","B","T","O","T","A","L">>
TXT_SUCURSAL == <<"S","U","C","U","R","S","A","L",":">>
TXT_AL == <<"A","L",":">>
TXT_CERO == <<"0">>

\* the keyword tables of the currency helpers and of rx_moneda
MON_DOLARES == <<"D","O","L","A","R","E","S">>
MON_EUROS == <<"E","U","R","O","S">>
MON_REALES == <<"R","E","A","L","E","S">>
MON_PESOS == <<"P","E","S","O","S">>
MON_GUARANIES == <<"G","U","A","R","A","N","I","E","S">>
ISO_PYG == <<"P","Y","G">>
ISO_USD == <<"U","S","D">>
ISO_EUR == <<"E","U","R">>
ISO_BRL == <<"B","R","L">>
ISO_ARS == <<"A","R","S">>
TXT_DOLAR_SIGNO == <<"$">>
HOJA_DOLARES ==
    {<<"U","S","D">>, <<"D","O","L","A","R">>, <<"D","Ó","L","A","R">>,
     <<"D","O","L","A","R","E","S">>, <<"D","Ó","L","A","R","E","S">>}
HOJA_EUROS ==
    {<<"E","U","R">>, <<"E","U","R","O">>, <<"E","U","R","O","S">>}
HOJA_REALES ==
    {<<"B","R","L">>, <<"R","E","A","L">>, <<"R","E","A","L","E","S">>}
HOJA_PESOS ==
    {<<"A","R","S">>, <<"P","E","S","O">>, <<"P","E","S","O","S">>, <<"A","R","G">>}
CLAVES_PYG ==
    {<<"P","Y","G">>, <<"G","S">>, <<"G","$">>, <<"₲">>, <<"G","U","A","R","A","N","I">>,
     <<"G","U","A","R","A","N","I","E","S">>, <<"G","U","A","R","A","N","Í">>}
CLAVES_USD ==
    {<<"U","S","D">>, <<"U","S","$">>, <<"U","$","S">>, <<"D","O","L","A","R">>,
     <<"D","Ó","L","A","R">>, <<"D","O","L","A","R","E","S">>,
     <<"D","Ó","L","A","R","E","S">>}
CLAVES_EUR ==
    {<<"E","U","R">>, <<"€">>, <<"E","U","R","O">>, <<"E","U","R","O","S">>}
CLAVES_BRL ==
    {<<"B","R","L">>, <<"R","$">>, <<"R","E","A","L">>, <<"R","E","A","L","E","S">>}
CLAVES_ARS ==
    {<<"A","R","S">>, <<"P","E","S","O">>, <<"P","E","S","O","S">>, <<"A","R","G">>}
RX_MONEDA_BANCO ==
    <<<<"G","U","A","R","A","N","I","E","S">>, <<"G","U","A","R","A","N","Í","E","S">>,
     <<"D","O","L","A","R","E","S">>, <<"D","Ó","L","A","R","E","S">>,
     <<"E","U","R","O","S">>, <<"E","U","R","O">>, <<"R","E","A","L","E","S">>,
     <<"R","E","A","L","E">>, <<"P","E","S","O","S">>, <<"P","E","S","O">>>>
RX_MONEDA_BULTOS ==
    <<<<"G","U","A","R","A","N","I","E","S">>, <<"G","U","A","R","A","N","Í","E","S">>,
     <<"D","O","L","A","R","E","S">>, <<"D","Ó","L","A","R","E","S">>,
     <<"E","U","R","O","S">>, <<"E","U","R","O">>, <<"R","E","A","L","E","S">>,
     <<"R","E","A","L","E">>, <<"P","E","S","O","S">>, <<"P","E","S","O">>, <<"P","Y","G">>,
     <<"G","S">>, <<"G","$">>, <<"₲">>, <<"U","S","D">>, <<"U","S","$">>, <<"U","$","S">>,
     <<"R","$">>, <<"B","R","L">>, <<"E","U","R">>, <<"A","R","S">>, <<"€">>, <<"$">>>>
TXT_AL_BANCO == <<"A","L">>
N_HOJA1 == <<"H","o","j","a","1">>
N_USD == <<"U","S","D">>

(***************************************************************************)
(* The regular expressions of the ledger parsers.  A search returns <<>>   *)
(* when nothing matches and <<group 1>> when something does.               *)
(***************************************************************************)
\* how many consecutive digits s has from position j on
RECURSIVE CuentaDigitos(_, _)
CuentaDigitos(s, j) == IF j <= Len(s) /\ isdigit(s[j]) THEN 1 + CuentaDigitos(s, j + 1) ELSE 0

RECURSIVE SaltaEspacios(_, _)
SaltaEspacios(s, j) == IF j <= Len(s) /\ isspace(s[j]) THEN SaltaEspacios(s, j + 1) ELSE j

\* length of the match of \d{1,2}/\d{1,2}/\d{4} starting at position j of s; 0 when none
FechaEn(s, j) ==
    LET n1 == CuentaDigitos(s, j)
        j2 == j + n1 + 1
        n2 == CuentaDigitos(s, j2)
        j3 == j2 + n2 + 1
        n3 == CuentaDigitos(s, j3)
    IN  IF /\ n1 \in {1, 2} /\ j + n1 <= Len(s) /\ s[j + n1] = "/"
           /\ n2 \in {1, 2} /\ j2 + n2 <= Len(s) /\ s[j2 + n2] = "/"
           /\ n3 >= 4
        THEN n1 + n2 + 6
        ELSE 0

\* rx_fecha_cell.match(c): ^\s*\d{1,2}/\d{1,2}/\d{4}\s*$
rx_fecha_cell(c) ==
    LET t == strip(c)
    IN  FechaEn(t, 1) > 0 /\ FechaEn(t, 1) = Len(t)

\* rx_totales.search(line): \b(TOTAL|SUBTOTAL)\b, re.IGNORECASE
PalabraEn(u, w) ==
    \E i \in Apariciones(u, w) :
        /\ (i = 1 \/ ~EsCharPalabra(u[i - 1]))
        /\ (i + Len(w) > Len(u) \/ ~EsCharPalabra(u[i + Len(w)]))

rx_totales(line) ==
    LET u == upper(line)
    IN  PalabraEn(u, TXT_TOTAL) \/ PalabraEn(u, TXT_SUBTOTAL)

\* re.search(r'SUCURSAL:\s*([^)]+)\)', line, re.IGNORECASE), group(1).strip()
BuscaSucursal(line) ==
    LET u == upper(line)
        n == Len(TXT_SUCURSAL)
        cierres(i) == {k \in (i + n)..Len(line) : line[k] = ")"}
        cand == {i \in Apariciones(u, TXT_SUCURSAL) : cierres(i) # {} /\ Min(cierres(i)) > i + n}
    IN  IF cand = {} THEN <<>>
        ELSE LET i == Min(cand)
             IN  <<strip(SubSeq(line, i + n, Min(cierres(i)) - 1))>>

\* re.search(r'AL:\s*(\d{1,2}/\d{1,2}/\d{4})', line, re.IGNORECASE), group(1)
BuscaFechaAL(line) ==
    LET u == upper(line)
        n == Len(TXT_AL)
        cand == {i \in Apariciones(u, TXT_AL) : FechaEn(line, SaltaEspacios(line, i + n)) > 0}
    IN  IF cand = {} THEN <<>>
        ELSE LET j == SaltaEspacios(line, Min(cand) + n)
             IN  <<SubSeq(line, j, j + FechaEn(line, j) - 1)>>

(***************************************************************************)
(* Cell helpers of comsol.py.                                              *)
(***************************************************************************)
_first_non_empty_after(row_vals, start_idx) ==
    IF start_idx = None THEN None
    ELSE LET c == {i \in (start_idx + 1)..Len(row_vals) : strip(row_vals[i]) # <<>>}
         IN  IF c = {} THEN None ELSE Min(c)

\* the cell read with the default of the amounts for every missing cell
_get_cell_defecto_cero(row_vals, idx, default) ==
    IF idx = None \/ idx > Len(row_vals) THEN TXT_CERO
    ELSE LET v == strip(row_vals[idx])
         IN  IF v # <<>> THEN v ELSE TXT_CERO

_get_cell(row_vals, idx, default) ==
    IF idx = None \/ idx > Len(row_vals) THEN default
    ELSE LET v == strip(row_vals[idx])
         IN  IF v # <<>> THEN v ELSE default

\* the digits read as a number, leading zeros lost
_only_digits_sin_ceros(s) ==
    LET d == SelectSeq(s, isdigit)
        noCero == {i \in 1..Len(d) : d[i] # "0"}
    IN  IF noCero = {} THEN d ELSE SubSeq(d, Min(noCero), Len(d))

_only_digits(s) == SelectSeq(s, isdigit)

_is_zero_like(s) ==
    LET t == strip(SelectSeq(s, LAMBDA c : c \notin {",", "."}))
    IN  t = <<>> \/ t = TXT_CERO

\* the scan that begins at the label cell instead of the cell after it
_extraer_saldos_desde_fila_con_etiqueta(strip_cells) ==
    LET etiqueta_norm == upper(_strip_accents(ETIQUETA_SALDO))
        con == {idx \in 1..Len(strip_cells) :
                    Contiene(upper(_strip_accents(strip_cells[idx])), etiqueta_norm)}
    IN  IF con = {} THEN <<>>
        ELSE LET resto == SubSeq(strip_cells, Min(con), Len(strip_cells))
                 v == [j \in 1..Len(resto) |-> strip(resto[j])]
             IN  SelectSeq(v, LAMBDA x : x # <<>> /\ TieneDigito(x))

\* the scan that reads the whole row when no cell holds the label
_extraer_saldos_desde_fila_sin_etiqueta(strip_cells) ==
    LET etiqueta_norm == upper(_strip_accents(ETIQUETA_SALDO))
        con == {idx \in 1..Len(strip_cells) :
                    Contiene(upper(_strip_accents(strip_cells[idx])), etiqueta_norm)}
        resto == SubSeq(strip_cells, IF con = {} THEN 1 ELSE Min(con) + 1, Len(strip_cells))
        v == [j \in 1..Len(resto) |-> strip(resto[j])]
    IN  SelectSeq(v, LAMBDA x : x # <<>> /\ TieneDigito(x))

_extraer_saldos_desde_fila(strip_cells) ==
    LET etiqueta_norm == upper(_strip_accents(ETIQUETA_SALDO))
        con == {idx \in 1..Len(strip_cells) :
                    Contiene(upper(_strip_accents(strip_cells[idx])), etiqueta_norm)}
    IN  IF con = {} THEN <<>>
        ELSE LET resto == SubSeq(strip_cells, Min(con) + 1, Len(strip_cells))
                 v == [j \in 1..Len(resto) |-> strip(resto[j])]
             IN  SelectSeq(v, LAMBDA x : x # <<>> /\ TieneDigito(x))

(***************************************************************************)
(* The cells and rows the ledger sheets are built from.                    *)
(***************************************************************************)
C_VACIA == <<>>
C_BLANCO == <<" ">>
C_INGRESOS == <<"I","N","G","R","E","S","O","S">>
C_EGRESOS == <<"E","g","r","e","s","o","s">>
C_MOTIVO == <<"D","e","p","ó","s","i","t","o">>
C_FECHA == <<"1","5","/","0","3","/","2","0","2","4">>
C_SUC == <<"C","i","u","d","a","d"," ","d","e","l"," ","E","s","t","e">>
C_RECIBO == <<"0","0","0","1","2","3","4","5","6">>
C_BULTOS == <<"3">>
C_GUA == <<"1",".","5","0","0",".","0","0","0">>
C_USD == <<"2","5","0">>
C_DEPOSITO == <<"D","E","P","O","S","I","T","O">>
C_UNO == <<"1">>
C_CERO_COMA == <<"0",",","0","0">>
C_SN == <<"S","/","N">>
C_TOTAL == <<"T","o","t","a","l">>
C_INFORME == <<"I","n","f","o","r","m","e"," ","d","e"," ","P","r","o","c","e","s","o","s">>
C_SALDO == <<"S","a","l","d","o"," ","A","n","t","e","r","i","o","r">>
C_SALDO_MAYUS == <<"S","A","L","D","O"," ","A","N","T","E","R","I","O","R">>
C_SALDO_NUM == <<"S","a","l","d","o"," ","A","n","t","e","r","i","o","r",":"," ","7">>
C_SALDO_1 == <<"1",".","2","0","0",",","5","0">>
C_SALDO_2 == <<"3",".","4","0","0",".","0","0","0">>
C_SALDO_3 == <<"7">>
C_SALDO_4 == <<"9">>
C_IDENT ==
    <<"P","R","O","S","E","G","U","R"," ","P","A","R","A","G","U","A","Y"," ","S",".","A",
      "."," ","(","S","u","c","u","r","s","a","l",":"," ","C","D","E",")">>
C_IDENT_2 ==
    <<"P","r","o","s","e","g","u","r"," ","P","a","r","a","g","u","a","y"," ","S",".","A",
      "."," ","(","S","u","c","u","r","s","a","l",":"," ","A","S","U",")">>
C_ESTADO ==
    <<"E","S","T","A","D","O"," ","D","E"," ","C","U","E","N","T","A"," ","D","E"," ","A",
      "T","M"," ","A","L",":"," ","1","5","/","0","3","/","2","0","2","4">>

C_ESTADO_BCO ==
    <<"E","S","T","A","D","O"," ","D","E"," ","C","U","E","N","T","A"," ","D","E"," ","B",
      "A","N","C","O"," ","A","L"," ","1","5","/","0","3","/","2","0","2","4"," ","-"," ",
      "D","ó","l","a","r","e","s">>

F_INGRESOS == <<C_INGRESOS>>
F_EGRESOS == <<C_VACIA, C_EGRESOS>>
F_MOTIVO == <<C_MOTIVO>>
F_DETALLE == <<C_VACIA, C_FECHA, C_SUC, C_RECIBO, C_BULTOS, C_GUA, TXT_CERO>>
F_TOTAL == <<C_TOTAL, C_VACIA, C_GUA>>
F_INFORME == <<C_INFORME>>
F_SALDO == <<C_SALDO, C_VACIA, C_SALDO_1, C_VACIA, C_SALDO_2>>
F_SALDO_B == <<C_SALDO, C_SALDO_3, C_SALDO_4, C_SALDO_3, C_SALDO_1>>
F_SALDO_SOLO == <<C_SALDO>>
F_IDENT == <<C_IDENT>>
F_ESTADO == <<C_ESTADO>>
F_VACIA == <<C_VACIA, C_BLANCO>>

\* detail rows of other widths, and the motive line of a deposit
F_MOTIVO_DEP == <<C_DEPOSITO>>
F_DETALLE_USD == <<C_VACIA, C_FECHA, C_SUC, C_RECIBO, C_BULTOS, C_GUA, C_UNO, C_USD>>
F_DETALLE_CEROS == <<C_VACIA, C_FECHA, C_SUC, C_RECIBO, C_BULTOS, C_GUA, TXT_CERO, C_CERO_COMA>>
F_CORTA_1 == <<C_VACIA, C_FECHA>>
F_CORTA_2 == <<C_VACIA, C_FECHA, C_SUC>>
F_CORTA_3 == <<C_VACIA, C_FECHA, C_SUC, C_RECIBO>>
F_CORTA_4 == <<C_VACIA, C_FECHA, C_SUC, C_RECIBO, C_BULTOS>>
F_CORTA_5 == <<C_VACIA, C_FECHA, C_SUC, C_RECIBO, C_BULTOS, C_GUA>>
F_SIN_DIGITOS == <<C_FECHA, C_SUC, C_SN>>

FilasCortas == {F_CORTA_1, F_CORTA_2, F_CORTA_3, F_CORTA_4, F_CORTA_5}

FilasDetalle ==
    {F_INGRESOS, F_MOTIVO_DEP, F_DETALLE, F_DETALLE_USD, F_DETALLE_CEROS, F_SIN_DIGITOS}
        \cup FilasCortas

FilasATM ==
    {F_INGRESOS, F_EGRESOS, F_MOTIVO, F_DETALLE, F_TOTAL, F_INFORME,
     F_SALDO, F_SALDO_B, F_SALDO_SOLO, F_IDENT, F_ESTADO, F_VACIA}

\* the identity row of another branch, and sheets with identity rows before the
\* section, the motive line and the detail row
F_IDENT_2 == <<C_IDENT_2>>

FilasIdentidad == {F_IDENT, F_IDENT_2, F_INGRESOS, F_MOTIVO_DEP, F_DETALLE}

\* an identity row without the sucursal and a statement row without the date, and
\* sheets with the rows of the head of a statement inside the section
C_IDENT_SIN == <<"P","R","O","S","E","G","U","R"," ","P","A","R","A","G","U","A","Y"," ","S",".","A",".">>
C_ESTADO_SIN == <<"E","s","t","a","d","o"," ","d","e"," ","C","u","e","n","t","a"," ","d","e"," ","A","T","M">>
F_IDENT_SIN == <<C_IDENT_SIN>>
F_ESTADO_SIN == <<C_ESTADO_SIN>>

\* a total line and a motive line that hold the word of a marker
C_TOTAL_INGRESOS == <<"T","o","t","a","l"," ","I","n","g","r","e","s","o","s">>
C_INGRESOS_VARIOS == <<"I","n","g","r","e","s","o","s"," ","v","a","r","i","o","s">>
F_TOTAL_INGRESOS == <<C_TOTAL_INGRESOS, C_GUA>>
F_INGRESOS_VARIOS == <<C_INGRESOS_VARIOS>>

FilasCabecera ==
    {F_IDENT, F_IDENT_SIN, F_ESTADO, F_ESTADO_SIN, F_INGRESOS, F_EGRESOS, F_MOTIVO_DEP,
     F_DETALLE, F_TOTAL_INGRESOS, F_INGRESOS_VARIOS}

(***************************************************************************)
(* What the head of the row loop computes from a row (comsol.py 436-442)   *)
(* and the searches the branches run on it.                                *)
(***************************************************************************)
LeerFila(row) ==
    LET strip_cells == [i \in 1..Len(row) |-> strip(row[i])]
        line_join == join(SelectSeq(strip_cells, LAMBDA c : c # <<>>))
        fechas == {i \in 1..Len(row) : rx_fecha_cell(strip_cells[i])}
    IN  [strip_cells |-> strip_cells,
         line_join |-> line_join,
         upper_join |-> upper(_strip_accents(line_join)),
         date_idx |-> IF fechas = {} THEN None ELSE Min(fechas),
         totales |-> rx_totales(line_join),
         saldos |-> _extraer_saldos_desde_fila(strip_cells),
         m |-> BuscaSucursal(line_join),
         m_f |-> BuscaFechaAL(line_join)]

Lectura ==
    [row \in FilasATM \cup FilasDetalle \cup FilasIdentidad \cup FilasCabecera |-> LeerFila(row)]

(***************************************************************************)
(* get_ec_atm and get_ec_bultos_atm (comsol.py): the body of the row loop  *)
(* as a function from the parse state e and a row to the next parse state. *)
(***************************************************************************)
Estado ==
    [agencia |-> agencia, fecha_archivo |-> fecha_archivo, ing_egr |-> ing_egr,
     motivo_actual |-> motivo_actual, saldo_ant_usd |-> saldo_ant_usd,
     saldo_ant_pyg |-> saldo_ant_pyg, registros |-> registros, origen |-> origen, pc |-> pc]

\* the label test without the "not yet captured" condition
EsFilaSaldo_siempre(e, L) == Contiene(L.upper_join, ETIQUETA_SALDO)

\* 'SALDO ANTERIOR' in upper_join and not (saldo_ant_usd or saldo_ant_pyg)
EsFilaSaldo(e, L) ==
    /\ Contiene(L.upper_join, ETIQUETA_SALDO)
    /\ ~(e.saldo_ant_usd # <<>> \/ e.saldo_ant_pyg # <<>>)

\* get_ec_atm: saldos[0] is the USD balance, saldos[1] the PYG balance
CapturaSaldoATM(e, L) ==
    [e EXCEPT !.saldo_ant_usd = IF Len(L.saldos) >= 1 THEN L.saldos[1] ELSE @,
              !.saldo_ant_pyg = IF Len(L.saldos) >= 2 THEN L.saldos[2] ELSE @]

\* get_ec_bultos_atm: [cant_pyg, saldo_pyg, cant_usd, saldo_usd]
CapturaSaldoBultosATM(e, L) ==
    [e EXCEPT !.saldo_ant_pyg = IF Len(L.saldos) >= 2 THEN L.saldos[2] ELSE @,
              !.saldo_ant_usd = IF Len(L.saldos) >= 4 THEN L.saldos[4] ELSE @]

CapturaAgencia(e, L) == IF L.m # <<>> THEN [e EXCEPT !.agencia = L.m[1]] ELSE e

CapturaFechaArchivo(e, L) == IF L.m_f # <<>> THEN [e EXCEPT !.fecha_archivo = L.m_f[1]] ELSE e

\* a marker row that always opens the IN section
AbreSeccion_fija(e, seccion) == [e EXCEPT !.ing_egr = "IN", !.motivo_actual = <<>>]

\* a marker row that keeps the motive of the section before it
AbreSeccion_conserva(e, seccion) == [e EXCEPT !.ing_egr = seccion]

AbreSeccion(e, seccion) == [e EXCEPT !.ing_egr = seccion, !.motivo_actual = <<>>]

\* the terminal row taken as a row to skip: continue in place of break
InformeDeProcesos_continue(e) == e

\* if 'INFORME DE PROCESOS' in upper_join: break
InformeDeProcesos(e) == [e EXCEPT !.pc = "fin"]

\* if rx_totales.search(line_join): continue
FilaTotales(e) == e

\* if ing_egr and date_idx is None
EsMotivo(e, L) == e.ing_egr # "" /\ L.date_idx = None

CapturaMotivo(e, L) == [e EXCEPT !.motivo_actual = strip(L.line_join)]

\* the detail test without the motive
EsDetalle_sin_motivo(e, L) == e.ing_egr # "" /\ L.date_idx # None

\* if ing_egr and motivo_actual and date_idx is not None
EsDetalle(e, L) == e.ing_egr # "" /\ e.motivo_actual # <<>> /\ L.date_idx # None

\* x or '0'
O_cero(x) == IF x # <<>> THEN x ELSE TXT_CERO

\* the cells of a detail row of get_ec_atm, located from the date cell rightwards
CamposATM(L) ==
    LET sc == L.strip_cells
        suc_idx == _first_non_empty_after(sc, L.date_idx)
        rec_idx == IF suc_idx # None THEN _first_non_empty_after(sc, suc_idx) ELSE None
        recibo_raw == _get_cell(sc, rec_idx, <<>>)
        bul_idx == IF rec_idx # None THEN _first_non_empty_after(sc, rec_idx) ELSE None
        gua_idx == IF bul_idx # None THEN _first_non_empty_after(sc, bul_idx) ELSE None
        usd_idx == IF gua_idx # None THEN _first_non_empty_after(sc, gua_idx) ELSE None
    IN  [fecha_oper |-> sc[L.date_idx],
         sucursal |-> _get_cell(sc, suc_idx, <<>>),
         recibo |-> IF _only_digits(recibo_raw) # <<>> THEN _only_digits(recibo_raw)
                                                       ELSE recibo_raw,
         bultos |-> _get_cell(sc, bul_idx, <<>>),
         guaranies |-> O_cero(_get_cell(sc, gua_idx, TXT_CERO)),
         dolares |-> O_cero(_get_cell(sc, usd_idx, TXT_CERO))]

RegistroATM(e, L) ==
    LET c == CamposATM(L)
    IN  [FECHA_OPER |-> c.fecha_oper, SUCURSAL |-> c.sucursal, RECIBO |-> c.recibo,
         BULTOS |-> c.bultos, GUARANIES |-> c.guaranies, DOLARES |-> c.dolares,
         ING_EGR |-> e.ing_egr, CLASIFICACION |-> "ATM",
         FECHA_ARCHIVO |-> e.fecha_archivo, MOTIVO_MOVIMIENTO |-> e.motivo_actual,
         AGENCIA |-> e.agencia, SALDO_ANTERIOR_PYG |-> e.saldo_ant_pyg,
         SALDO_ANTERIOR_USD |-> e.saldo_ant_usd]

\* the cells of a detail row of get_ec_bultos_atm
CamposBultosATM(L) ==
    LET sc == L.strip_cells
        suc_idx == _first_non_empty_after(sc, L.date_idx)
        rec_idx == IF suc_idx # None THEN _first_non_empty_after(sc, suc_idx) ELSE None
        recibo_raw == _get_cell(sc, rec_idx, <<>>)
        bul_idx == IF rec_idx # None THEN _first_non_empty_after(sc, rec_idx) ELSE None
        gua_idx == IF bul_idx # None THEN _first_non_empty_after(sc, bul_idx) ELSE None
        usd_bul_idx == IF gua_idx # None THEN _first_non_empty_after(sc, gua_idx) ELSE None
        usd_imp_idx == IF usd_bul_idx # None THEN _first_non_empty_after(sc, usd_bul_idx)
                                             ELSE None
    IN  [fecha_oper |-> sc[L.date_idx],
         sucursal |-> _get_cell(sc, suc_idx, <<>>),
         recibo |-> IF _only_digits(recibo_raw) # <<>> THEN _only_digits(recibo_raw)
                                                       ELSE recibo_raw,
         bultos_pyg |-> _get_cell(sc, bul_idx, <<>>),
         guaranies |-> O_cero(_get_cell(sc, gua_idx, TXT_CERO)),
         bultos_usd |-> _get_cell(sc, usd_bul_idx, <<>>),
         dolares |-> O_cero(_get_cell(sc, usd_imp_idx, TXT_CERO))]

RegistroBultosATM(e, L, moneda) ==
    LET c == CamposBultosATM(L)
    IN  [FECHA_OPER |-> c.fecha_oper, SUCURSAL |-> c.sucursal, RECIBO |-> c.recibo,
         BULTOS |-> IF moneda = "PYG" THEN c.bultos_pyg ELSE c.bultos_usd,
         MONEDA |-> moneda,
         IMPORTE |-> IF moneda = "PYG" THEN c.guaranies ELSE c.dolares,
         ING_EGR |-> e.ing_egr, CLASIFICACION |-> "ATM",
         FECHA_ARCHIVO |-> e.fecha_archivo, MOTIVO_MOVIMIENTO |-> e.motivo_actual,
         AGENCIA |-> e.agencia, SALDO_ANTERIOR_PYG |-> e.saldo_ant_pyg,
         SALDO_ANTERIOR_USD |-> e.saldo_ant_usd]

\* registros.append(...) of get_ec_atm, for the row at position donde
AnotaATM(e, L, donde) ==
    [e EXCEPT !.registros = Append(@, RegistroATM(e, L)), !.origen = Append(@, donde)]

\* the one or two registros.append(...) of get_ec_bultos_atm
AnotaBultosATM(e, L, donde, descartar) ==
    IF ~(descartar /\ _is_zero_like(CamposBultosATM(L).dolares))
    THEN [e EXCEPT !.registros = @ \o <<RegistroBultosATM(e, L, "PYG"),
                                        RegistroBultosATM(e, L, "USD")>>,
                   !.origen = @ \o <<donde, donde>>]
    ELSE [e EXCEPT !.registros = Append(@, RegistroBultosATM(e, L, "PYG")),
                   !.origen = Append(@, donde)]

get_ec_atm(e, row, donde) ==
    LET L == Lectura[row]
    IN  IF L.line_join = <<>> THEN e
        ELSE IF EsFilaSaldo(e, L) THEN CapturaSaldoATM(e, L)
        ELSE IF Contiene(L.upper_join, TXT_PROSEGUR) THEN CapturaAgencia(e, L)
        ELSE IF Contiene(L.upper_join, TXT_ESTADO) THEN CapturaFechaArchivo(e, L)
        ELSE IF L.upper_join = TXT_INGRESOS THEN AbreSeccion(e, "IN")
        ELSE IF L.upper_join = TXT_EGRESOS THEN AbreSeccion(e, "OUT")
        ELSE IF Contiene(L.upper_join, TXT_INFORME) THEN InformeDeProcesos(e)
        ELSE IF L.totales THEN FilaTotales(e)
        ELSE IF EsMotivo(e, L) THEN CapturaMotivo(e, L)
        ELSE IF EsDetalle(e, L) THEN AnotaATM(e, L, donde)
        ELSE e

get_ec_bultos_atm(e, row, donde, descartar) ==
    LET L == Lectura[row]
    IN  IF L.line_join = <<>> THEN e
        ELSE IF EsFilaSaldo(e, L) THEN CapturaSaldoBultosATM(e, L)
        ELSE IF Contiene(L.upper_join, TXT_PROSEGUR) THEN CapturaAgencia(e, L)
        ELSE IF Contiene(L.upper_join, TXT_ESTADO_BULTOS_ATM) THEN CapturaFechaArchivo(e, L)
        ELSE IF L.upper_join = TXT_INGRESOS THEN AbreSeccion(e, "IN")
        ELSE IF L.upper_join = TXT_EGRESOS THEN AbreSeccion(e, "OUT")
        ELSE IF Contiene(L.upper_join, TXT_INFORME) THEN InformeDeProcesos(e)
        ELSE IF L.totales THEN FilaTotales(e)
        ELSE IF EsMotivo(e, L) THEN CapturaMotivo(e, L)
        ELSE IF EsDetalle(e, L) THEN AnotaBultosATM(e, L, donde, descartar)
        ELSE e

(***************************************************************************)
(* The ATM ledger parsers as a state machine: the workbook is the input,   *)
(* one step is one iteration of the row loop.                              *)
(***************************************************************************)
MaxFilas == 4

\* the grids of at most n rows drawn from S
Grillas(S, n) == UNION {[1..k -> S] : k \in 0..n}

\* a scan that starts inside the IN section
SeccionInicial_IN == "IN"

\* ing_egr = '' before the row loop
SeccionInicial == ""

\* the assignments before the row loop (comsol.py 424-433, 717-726)
Antes ==
    /\ agencia = <<>>
    /\ fecha_archivo = <<>>
    /\ ing_egr = SeccionInicial
    /\ motivo_actual = <<>>
    /\ saldo_ant_usd = <<>>
    /\ saldo_ant_pyg = <<>>
    /\ registros = <<>>
    /\ origen = <<>>
    /\ hoja = 1
    /\ i_fila = 0
    /\ pc = "filas"

SinBanco == saldo_anterior = <<>> /\ moneda_actual = <<>> /\ previa = <<>>

SinInventario ==
    /\ variante = ""
    /\ row_start = None
    /\ row_end = None
    /\ cur_divisa = <<>>
    /\ cur_agrup = <<>>
    /\ cur_tipo = <<>>
    /\ denom_cols = <<>>

\* no document dispatched by main
SinMain ==
    /\ pendientes = <<>>
    /\ i_doc = 0
    /\ resultados = <<>>
    /\ pc_main = ""

\* no table handed to the output formatting
SinDf ==
    /\ df_in = [columns |-> <<>>, filas |-> 0]
    /\ df_out = [columns |-> <<>>, filas |-> 0]
    /\ pc_df = ""

\* no row handed to _extraer_saldos_desde_fila
SinSaldos ==
    /\ fila_saldo = <<>>
    /\ valores = <<>>
    /\ pc_saldos = ""

\* neither of the two other bank statement parsers at work
SinBcoMas ==
    /\ clasificacion = <<>>
    /\ current_section = <<>>
    /\ current_motivo = <<>>
    /\ extra_cliente = <<>>
    /\ started = FALSE

\* no helper called on its own
SinFn ==
    /\ fn = ""
    /\ args = <<>>
    /\ ret = <<>>
    /\ pc_fn = ""

SinResto == SinSaldos /\ SinBcoMas /\ SinFn

SinOtros == SinMain /\ SinDf /\ SinResto

Init ==
    /\ tipo \in {"EC_ATM", "EC_BULTOS_ATM"}
    /\ descartar_usd_cero \in (IF tipo = "EC_BULTOS_ATM" THEN BOOLEAN ELSE {TRUE})
    /\ doc \in {<<[nombre |-> N_HOJA1, filas |-> g]>> : g \in Grillas(FilasATM, MaxFilas)}
    /\ Antes
    /\ SinBanco
    /\ SinInventario
    /\ SinOtros

Asigna(e) ==
    /\ agencia' = e.agencia
    /\ fecha_archivo' = e.fecha_archivo
    /\ ing_egr' = e.ing_egr
    /\ motivo_actual' = e.motivo_actual
    /\ saldo_ant_usd' = e.saldo_ant_usd
    /\ saldo_ant_pyg' = e.saldo_ant_pyg
    /\ registros' = e.registros
    /\ origen' = e.origen
    /\ pc' = e.pc

\* one iteration of "for _, row in df_raw.iterrows()" of get_ec_atm
FilaATM ==
    /\ tipo = "EC_ATM"
    /\ pc = "filas"
    /\ i_fila < Len(doc[hoja].filas)
    /\ Asigna(get_ec_atm(Estado, doc[hoja].filas[i_fila + 1], <<hoja, i_fila + 1>>))
    /\ i_fila' = i_fila + 1
    /\ UNCHANGED <<varsOtros, tipo, descartar_usd_cero, doc, hoja, saldo_anterior, moneda_actual, previa,
                   varsInv>>

\* one iteration of "for _, row in df_x.iterrows()" of get_ec_bultos_atm
FilaBultosATM ==
    /\ tipo = "EC_BULTOS_ATM"
    /\ pc = "filas"
    /\ i_fila < Len(doc[hoja].filas)
    /\ Asigna(get_ec_bultos_atm(Estado, doc[hoja].filas[i_fila + 1], <<hoja, i_fila + 1>>,
                                descartar_usd_cero))
    /\ i_fila' = i_fila + 1
    /\ UNCHANGED <<varsOtros, tipo, descartar_usd_cero, doc, hoja, saldo_anterior, moneda_actual, previa,
                   varsInv>>

Next == FilaATM \/ FilaBultosATM

Spec == Init /\ [][Next]_vars

(***************************************************************************)
(* The rows of the sheet as section 4.3 of the specification names them,   *)
(* told from the sheet alone: the text of the row and the rows above it.   *)
(***************************************************************************)
Fila(n) == Lectura[doc[hoja].filas[n]]

TieneEtiqueta(n) == Contiene(Fila(n).upper_join, ETIQUETA_SALDO)

\* a label row with enough values for this sub-type to keep at least one
DaSaldo(n) ==
    TieneEtiqueta(n) /\ Len(Fila(n).saldos) >= (IF tipo = "EC_ATM" THEN 1 ELSE 2)

SaldoDadoAntes(n) == \E k \in 1..(n - 1) : DaSaldo(k)

Clase(n) ==
    LET L == Fila(n)
    IN  IF L.line_join = <<>> THEN "vacia"
        ELSE IF TieneEtiqueta(n) /\ ~SaldoDadoAntes(n) THEN "saldo"
        ELSE IF Contiene(L.upper_join, TXT_PROSEGUR) THEN "identidad"
        ELSE IF Contiene(L.upper_join,
                         IF tipo = "EC_ATM" THEN TXT_ESTADO ELSE TXT_ESTADO_BULTOS_ATM)
             THEN "estado"
        ELSE IF L.upper_join = TXT_INGRESOS THEN "IN"
        ELSE IF L.upper_join = TXT_EGRESOS THEN "OUT"
        ELSE IF Contiene(L.upper_join, TXT_INFORME) THEN "terminal"
        ELSE IF L.totales THEN "parada"
        ELSE IF L.date_idx = None THEN "texto"
        ELSE "fecha"

Max(S) == CHOOSE x \in S : \A y \in S : x >= y

Marcadores(n) == {m \in 1..(n - 1) : Clase(m) \in {"IN", "OUT"}}

Paradas(n) == {m \in 1..(n - 1) : Clase(m) = "parada"}

\* a motive line strictly between rows m and n
MotivoEntre(m, n) == \E j \in (m + 1)..(n - 1) : Clase(j) = "texto"

Emitidos(n) == {k \in 1..Len(registros) : origen[k] = <<hoja, n>>}

\* C1: a row with a date-shaped cell that stands inside a section, with no motive
\* line between the section marker and the row, appends no record.
C1_PuertaMotivo ==
    \A n \in 1..i_fila :
        (Clase(n) = "fecha" /\ Marcadores(n) # {} /\ ~MotivoEntre(Max(Marcadores(n)), n))
            => Emitidos(n) = {}

C1_Testigo ==
    \E n \in 1..i_fila :
        /\ Clase(n) = "fecha"
        /\ Marcadores(n) # {}
        /\ ~MotivoEntre(Max(Marcadores(n)), n)
        /\ \E j \in (n + 1)..i_fila : Emitidos(j) # {}

\* C2: a sheet with no INGRESOS or EGRESOS marker row gives no record at all.
C2_SinMarcadorSinRegistros ==
    (\A n \in 1..Len(doc[hoja].filas) : Clase(n) \notin {"IN", "OUT"}) => registros = <<>>

C2_Testigo ==
    /\ \A n \in 1..Len(doc[hoja].filas) : Clase(n) \notin {"IN", "OUT"}
    /\ i_fila = Len(doc[hoja].filas)
    /\ \E a, b \in 1..i_fila : a < b /\ Clase(a) = "texto" /\ Clase(b) = "fecha"
    /\ \E c \in 1..i_fila : Clase(c) = "parada"

\* C3: every record carries ING_EGR IN or OUT, the section of the last marker row
\* above the row that appended the record.
C3_SeccionDelUltimoMarcador ==
    \A k \in 1..Len(registros) :
        LET n == origen[k][2]
        IN  /\ registros[k].ING_EGR \in {"IN", "OUT"}
            /\ Marcadores(n) # {}
            /\ registros[k].ING_EGR = Clase(Max(Marcadores(n)))

C3_Testigo ==
    \E k \in 1..Len(registros) :
        /\ registros[k].ING_EGR = "OUT"
        /\ \E m \in Marcadores(origen[k][2]) : Clase(m) = "IN"

\* C4: every record is appended by a row that has a motive line between it and the
\* last section marker or stop-row above it.
C4_MotivoDesdeUltimaTransicion ==
    \A k \in 1..Len(registros) :
        LET n == origen[k][2]
            T == Marcadores(n) \cup Paradas(n)
        IN  T # {} /\ MotivoEntre(Max(T), n)

\* a stop-row between the motive line and the detail row, and the record appended
C4_Testigo ==
    \E k \in 1..Len(registros) :
        LET n == origen[k][2]
        IN  Paradas(n) # {} /\ Marcadores(n) # {} /\ Max(Paradas(n)) > Max(Marcadores(n))

TerminalLeida == \E n \in 1..i_fila : Clase(n) = "terminal"

\* C5: once the row with the terminal marker has been read, no record is appended
\* and section, motive, agency, statement date and opening balances stay as they are.
C5_NadaTrasElTerminal ==
    [][TerminalLeida => UNCHANGED <<registros, ing_egr, motivo_actual, agencia,
                                    fecha_archivo, saldo_ant_usd, saldo_ant_pyg>>]_vars

\* the loop was left at the terminal row with a TOTAL row and a label row still below
C5_Testigo ==
    /\ TerminalLeida
    /\ pc = "fin"
    /\ ing_egr # ""
    /\ saldo_ant_usd = <<>> /\ saldo_ant_pyg = <<>>
    /\ \E a, b \in (i_fila + 1)..Len(doc[hoja].filas) :
           Fila(a).totales /\ Contiene(Fila(b).upper_join, ETIQUETA_SALDO) /\ Fila(b).saldos # <<>>

\* C6: once an opening balance is captured, no row changes the captured values.
C6_SaldoUnaVez ==
    [][(saldo_ant_usd # <<>> \/ saldo_ant_pyg # <<>>)
           => UNCHANGED <<saldo_ant_usd, saldo_ant_pyg>>]_vars

\* two label rows with different values have been read; the first one's are kept
C6_Testigo ==
    \E a, b \in 1..i_fila :
        /\ a < b
        /\ DaSaldo(a) /\ ~SaldoDadoAntes(a)
        /\ DaSaldo(b) /\ Fila(b).saldos # Fila(a).saldos
        /\ Len(Fila(a).saldos) >= 2 /\ saldo_ant_pyg = Fila(a).saldos[2]

(***************************************************************************)
(* get_ec_banco and get_ec_bultos_bco (comsol.py): helpers.                *)
(***************************************************************************)
\* rx_fecha_linea.match(linea): ^\s*(\d{1,2}/\d{1,2}/\d{4})\b
rx_fecha_linea(linea) ==
    LET j == SaltaEspacios(linea, 1)
        n == FechaEn(linea, j)
    IN  IF n > 0 /\ (j + n > Len(linea) \/ ~EsCharPalabra(linea[j + n]))
        THEN <<SubSeq(linea, j, j + n - 1)>>
        ELSE <<>>

RECURSIVE SaltaSeparadores(_, _)
SaltaSeparadores(s, j) ==
    IF j <= Len(s) /\ (s[j] = ":" \/ isspace(s[j])) THEN SaltaSeparadores(s, j + 1) ELSE j

\* re.search(r'AL[:\s]+(\d{1,2}/\d{1,2}/\d{4})', linea, re.IGNORECASE), group(1)
BuscaFechaALBanco(linea) ==
    LET u == upper(linea)
        n == Len(TXT_AL_BANCO)
        cand == {i \in Apariciones(u, TXT_AL_BANCO) :
                     /\ SaltaSeparadores(linea, i + n) > i + n
                     /\ FechaEn(linea, SaltaSeparadores(linea, i + n)) > 0}
    IN  IF cand = {} THEN <<>>
        ELSE LET j == SaltaSeparadores(linea, Min(cand) + n)
             IN  <<SubSeq(linea, j, j + FechaEn(linea, j) - 1)>>

\* rx_moneda.search(linea): alts are the alternatives in the order the pattern tries them,
\* bordes says whether the pattern is wrapped in \b ... \b
rx_moneda(linea, alts, bordes) ==
    LET u == upper(linea)
        en(k) == {i \in Apariciones(u, alts[k]) :
                      bordes => /\ (i = 1 \/ ~EsCharPalabra(u[i - 1]))
                                /\ (i + Len(alts[k]) > Len(u)
                                        \/ ~EsCharPalabra(u[i + Len(alts[k])]))}
        sitios == UNION {en(k) : k \in 1..Len(alts)}
    IN  IF sitios = {} THEN <<>>
        ELSE LET i == Min(sitios)
                 k == Min({x \in 1..Len(alts) : i \in en(x)})
             IN  <<SubSeq(linea, i, i + Len(alts[k]) - 1)>>

AlgunaEn(claves, t) == \E k \in claves : Contiene(t, k)

_guess_currency_from_sheet_name(sheet_name) ==
    LET n == upper(_strip_accents(sheet_name))
    IN  IF AlgunaEn(HOJA_DOLARES, n) THEN MON_DOLARES
        ELSE IF AlgunaEn(HOJA_EUROS, n) THEN MON_EUROS
        ELSE IF AlgunaEn(HOJA_REALES, n) THEN MON_REALES
        ELSE IF AlgunaEn(HOJA_PESOS, n) THEN MON_PESOS
        ELSE MON_GUARANIES

_normaliza_moneda_iso(token) ==
    LET t == strip(upper(_strip_accents(token)))
    IN  IF AlgunaEn(CLAVES_PYG, t) THEN ISO_PYG
        ELSE IF AlgunaEn(CLAVES_USD, t) THEN ISO_USD
        ELSE IF AlgunaEn(CLAVES_EUR, t) THEN ISO_EUR
        ELSE IF AlgunaEn(CLAVES_BRL, t) THEN ISO_BRL
        ELSE IF AlgunaEn(CLAVES_ARS, t) THEN ISO_ARS
        ELSE IF Contiene(t, TXT_DOLAR_SIGNO) THEN ISO_USD
        ELSE IF t # <<>> THEN t
        ELSE ISO_PYG

\* next((i for i, p in enumerate(parts[1:], 1) if sum(ch.isdigit() ...) >= 4), None)
idx_rec(parts) ==
    LET c == {i \in 2..Len(parts) : Len(SelectSeq(_strip_accents(parts[i]), isdigit)) >= 4}
    IN  IF c = {} THEN None ELSE Min(c)

F_DETALLE_BCO == <<C_FECHA, C_SUC, C_RECIBO, C_BULTOS, C_GUA>>
F_ESTADO_BCO == <<C_ESTADO_BCO>>

FilasBCO == {F_INGRESOS, F_MOTIVO, F_DETALLE_BCO, F_SALDO, F_INFORME, F_ESTADO_BCO}

\* what the head of the row loop computes from a row (comsol.py 589-595, 897-902)
LeerFilaBco(row) ==
    LET strip_cells == [i \in 1..Len(row) |-> strip(row[i])]
        parts == SelectSeq(strip_cells, LAMBDA c : c # <<>>)
        linea == join(parts)
    IN  [strip_cells |-> strip_cells,
         parts |-> parts,
         linea |-> linea,
         linea_up |-> upper(_strip_accents(linea)),
         totales |-> rx_totales(linea),
         valores |-> _extraer_saldos_desde_fila(strip_cells),
         valores_parts |-> _extraer_saldos_desde_fila(parts),
         m |-> BuscaSucursal(linea),
         m_f |-> BuscaFechaALBanco(linea),
         m_mon |-> rx_moneda(linea, RX_MONEDA_BANCO, TRUE),
         m_mon_bultos |-> rx_moneda(linea, RX_MONEDA_BULTOS, FALSE),
         m_date |-> rx_fecha_linea(linea),
         idx_rec |-> idx_rec(parts)]

LecturaBco == [row \in FilasBCO |-> LeerFilaBco(row)]

(***************************************************************************)
(* get_ec_banco and get_ec_bultos_bco: the sheet loop and the row loop.    *)
(***************************************************************************)
EstadoBco ==
    [agencia |-> agencia, fecha_archivo |-> fecha_archivo, ing_egr |-> ing_egr,
     motivo_actual |-> motivo_actual, saldo_anterior |-> saldo_anterior,
     moneda_actual |-> moneda_actual, registros |-> registros, origen |-> origen, pc |-> pc]

\* the per-sheet state kept from the previous sheet: only the currency is set anew
InicioHoja_arrastra(e, moneda) == [e EXCEPT !.moneda_actual = moneda, !.pc = "filas"]

\* the assignments at the head of "for nombre_hoja, df in hojas.items()"
InicioHoja(e, moneda) ==
    [e EXCEPT !.saldo_anterior = <<>>, !.agencia = <<>>, !.fecha_archivo = <<>>,
              !.ing_egr = "", !.motivo_actual = <<>>, !.moneda_actual = moneda,
              !.pc = "filas"]

\* 'SALDO ANTERIOR' in linea_up and not saldo_anterior_hoja
EsFilaSaldoBco(e, L) == Contiene(L.linea_up, ETIQUETA_SALDO) /\ e.saldo_anterior = <<>>

CapturaSaldoBanco(e, L) ==
    IF L.valores # <<>> THEN [e EXCEPT !.saldo_anterior = L.valores[1]] ELSE e

CapturaSaldoBultosBco(e, L) ==
    IF Len(L.valores_parts) >= 2 THEN [e EXCEPT !.saldo_anterior = L.valores_parts[2]]
    ELSE IF Len(L.valores_parts) = 1 THEN [e EXCEPT !.saldo_anterior = L.valores_parts[1]]
    ELSE e

EstadoDeCuentaBanco(e, L) ==
    [e EXCEPT !.fecha_archivo = IF L.m_f # <<>> THEN L.m_f[1] ELSE @,
              !.moneda_actual = IF L.m_mon # <<>>
                                THEN _guess_currency_from_sheet_name(L.m_mon[1]) ELSE @]

EstadoDeCuentaBultosBco(e, L) ==
    [e EXCEPT !.fecha_archivo = IF L.m_f # <<>> THEN L.m_f[1] ELSE @,
              !.moneda_actual = IF L.m_mon_bultos # <<>>
                                THEN _normaliza_moneda_iso(L.m_mon_bultos[1]) ELSE @]

\* if ing_egr and motivo_actual and m_date
EsDetalleBco(e, L) == e.ing_egr # "" /\ e.motivo_actual # <<>> /\ L.m_date # <<>>

\* parts[i] if i < len(parts) else '' (i counted from 1 here)
ParteO(parts, i) == IF i <= Len(parts) THEN parts[i] ELSE <<>>

RegistroBanco(e, L, nombre_hoja) ==
    [HOJA_ORIGEN |-> nombre_hoja, AGENCIA |-> e.agencia, FECHA_ARCHIVO |-> e.fecha_archivo,
     ING_EGR |-> e.ing_egr, CLASIFICACION |-> "BCO", MOTIVO_MOVIMIENTO |-> e.motivo_actual,
     FECHA_OPER |-> L.m_date[1],
     SUCURSAL |-> strip(join(SubSeq(L.parts, 2, L.idx_rec - 1))),
     RECIBO |-> L.parts[L.idx_rec],
     BULTOS |-> ParteO(L.parts, L.idx_rec + 1),
     MONEDA |-> _normaliza_moneda_iso(e.moneda_actual),
     MONTO |-> ParteO(L.parts, L.idx_rec + 2),
     SALDO_ANTERIOR |-> e.saldo_anterior]

DetalleBanco(e, L, donde, nombre_hoja) ==
    IF L.idx_rec = None THEN e
    ELSE [e EXCEPT !.registros = Append(@, RegistroBanco(e, L, nombre_hoja)),
                   !.origen = Append(@, donde)]

\* m_mon_inline: the currency found in the detail line replaces the current one
MonedaEnLinea(e, L) ==
    IF L.m_mon_bultos # <<>> THEN _normaliza_moneda_iso(L.m_mon_bultos[1]) ELSE e.moneda_actual

RegistroBultosBco(e, L) ==
    [FECHA |-> L.parts[1],
     SUCURSAL |-> strip(join(SubSeq(L.parts, 2, L.idx_rec - 1))),
     RECIBO |-> L.parts[L.idx_rec],
     BULTOS |-> ParteO(L.parts, L.idx_rec + 1),
     MONEDA |-> IF MonedaEnLinea(e, L) # <<>> THEN MonedaEnLinea(e, L) ELSE ISO_PYG,
     IMPORTE |-> ParteO(L.parts, L.idx_rec + 2),
     ING_EGR |-> e.ing_egr, CLASIFICACION |-> "BULTO BCO",
     FECHA_ARCHIVO |-> e.fecha_archivo, MOTIVO_MOVIMIENTO |-> e.motivo_actual,
     AGENCIA |-> e.agencia, SALDO_ANTERIOR |-> e.saldo_anterior]

DetalleBultosBco(e, L, donde) ==
    IF L.idx_rec = None THEN e
    ELSE [e EXCEPT !.moneda_actual = MonedaEnLinea(e, L),
                   !.registros = Append(@, RegistroBultosBco(e, L)),
                   !.origen = Append(@, donde)]

get_ec_banco(e, row, donde, nombre_hoja) ==
    LET L == LecturaBco[row]
    IN  IF L.linea = <<>> THEN e
        ELSE IF EsFilaSaldoBco(e, L) THEN CapturaSaldoBanco(e, L)
        ELSE IF Contiene(L.linea_up, TXT_PROSEGUR) THEN CapturaAgencia(e, L)
        ELSE IF Contiene(L.linea_up, TXT_ESTADO) THEN EstadoDeCuentaBanco(e, L)
        ELSE IF L.linea_up = TXT_INGRESOS THEN AbreSeccion(e, "IN")
        ELSE IF L.linea_up = TXT_EGRESOS THEN AbreSeccion(e, "OUT")
        ELSE IF Contiene(L.linea_up, TXT_INFORME) THEN InformeDeProcesos(e)
        ELSE IF L.totales THEN FilaTotales(e)
        ELSE IF EsDetalleBco(e, L) THEN DetalleBanco(e, L, donde, nombre_hoja)
        ELSE e

get_ec_bultos_bco(e, row, donde) ==
    LET L == LecturaBco[row]
    IN  IF L.linea = <<>> THEN e
        ELSE IF EsFilaSaldoBco(e, L) THEN CapturaSaldoBultosBco(e, L)
        ELSE IF Contiene(L.linea_up, TXT_PROSEGUR) THEN CapturaAgencia(e, L)
        ELSE IF Contiene(L.linea_up, TXT_ESTADO) THEN EstadoDeCuentaBultosBco(e, L)
        ELSE IF L.linea_up = TXT_INGRESOS THEN AbreSeccion(e, "IN")
        ELSE IF L.linea_up = TXT_EGRESOS THEN AbreSeccion(e, "OUT")
        ELSE IF Contiene(L.linea_up, TXT_INFORME) THEN InformeDeProcesos(e)
        ELSE IF L.totales THEN FilaTotales(e)
        ELSE IF EsDetalleBco(e, L) THEN DetalleBultosBco(e, L, donde)
        ELSE e

MaxHojas == 2
MaxFilasBco == 2

NombresHoja == {N_HOJA1, N_USD}

HojasBco == {[nombre |-> n, filas |-> g] : n \in NombresHoja, g \in Grillas(FilasBCO, MaxFilasBco)}

InitBco ==
    /\ tipo \in {"EC_BANCO", "EC_BULTOS_BCO"}
    /\ descartar_usd_cero = TRUE
    /\ doc \in UNION {[1..k -> HojasBco] : k \in 1..MaxHojas}
    /\ agencia = <<>>
    /\ fecha_archivo = <<>>
    /\ ing_egr = ""
    /\ motivo_actual = <<>>
    /\ saldo_anterior = <<>>
    /\ moneda_actual = <<>>
    /\ saldo_ant_usd = <<>>
    /\ saldo_ant_pyg = <<>>
    /\ registros = <<>>
    /\ origen = <<>>
    /\ previa = <<>>
    /\ hoja = 0
    /\ i_fila = 0
    /\ pc = "hojas"
    /\ SinInventario
    /\ SinOtros

AsignaBco(e) ==
    /\ agencia' = e.agencia
    /\ fecha_archivo' = e.fecha_archivo
    /\ ing_egr' = e.ing_egr
    /\ motivo_actual' = e.motivo_actual
    /\ saldo_anterior' = e.saldo_anterior
    /\ moneda_actual' = e.moneda_actual
    /\ registros' = e.registros
    /\ origen' = e.origen
    /\ pc' = e.pc

\* the row loop of the current sheet is over, and another sheet follows
OtraHoja ==
    /\ hoja < Len(doc)
    /\ IF hoja = 0 THEN TRUE ELSE pc = "fin" \/ i_fila = Len(doc[hoja].filas)

\* get_ec_banco: the next iteration of the sheet loop begins
HojaBanco ==
    /\ tipo = "EC_BANCO"
    /\ OtraHoja
    /\ AsignaBco(InicioHoja(EstadoBco, _guess_currency_from_sheet_name(doc[hoja + 1].nombre)))
    /\ hoja' = hoja + 1
    /\ i_fila' = 0
    /\ previa' = IF hoja = 0 THEN <<>> ELSE <<EstadoBco>>
    /\ UNCHANGED <<varsOtros, tipo, descartar_usd_cero, doc, saldo_ant_usd, saldo_ant_pyg, varsInv>>

\* get_ec_bultos_bco: the next iteration of the sheet loop begins
HojaBultosBco ==
    /\ tipo = "EC_BULTOS_BCO"
    /\ OtraHoja
    /\ AsignaBco(InicioHoja(EstadoBco, _normaliza_moneda_iso(doc[hoja + 1].nombre)))
    /\ hoja' = hoja + 1
    /\ i_fila' = 0
    /\ previa' = IF hoja = 0 THEN <<>> ELSE <<EstadoBco>>
    /\ UNCHANGED <<varsOtros, tipo, descartar_usd_cero, doc, saldo_ant_usd, saldo_ant_pyg, varsInv>>

\* one iteration of "for _, row in df.iterrows()" of get_ec_banco
FilaBanco ==
    /\ tipo = "EC_BANCO"
    /\ pc = "filas"
    /\ i_fila < Len(doc[hoja].filas)
    /\ AsignaBco(get_ec_banco(EstadoBco, doc[hoja].filas[i_fila + 1], <<hoja, i_fila + 1>>,
                              doc[hoja].nombre))
    /\ i_fila' = i_fila + 1
    /\ UNCHANGED <<varsOtros, tipo, descartar_usd_cero, doc, hoja, previa, saldo_ant_usd, saldo_ant_pyg,
                   varsInv>>

\* one iteration of "for _, row in df.iterrows()" of get_ec_bultos_bco
FilaBultosBco ==
    /\ tipo = "EC_BULTOS_BCO"
    /\ pc = "filas"
    /\ i_fila < Len(doc[hoja].filas)
    /\ AsignaBco(get_ec_bultos_bco(EstadoBco, doc[hoja].filas[i_fila + 1],
                                   <<hoja, i_fila + 1>>))
    /\ i_fila' = i_fila + 1
    /\ UNCHANGED <<varsOtros, tipo, descartar_usd_cero, doc, hoja, previa, saldo_ant_usd, saldo_ant_pyg,
                   varsInv>>

NextBco == HojaBanco \/ HojaBultosBco \/ FilaBanco \/ FilaBultosBco

SpecBco == InitBco /\ [][NextBco]_vars

\* the parse state of a scan that has read nothing yet
EnBlanco ==
    [agencia |-> <<>>, fecha_archivo |-> <<>>, ing_egr |-> "", motivo_actual |-> <<>>,
     saldo_anterior |-> <<>>, moneda_actual |-> <<>>, registros |-> <<>>, origen |-> <<>>,
     pc |-> "hojas"]

\* the state sheet h would be in after its first n rows if it were the only sheet
RECURSIVE HojaSola(_, _)
HojaSola(h, n) ==
    IF n = 0
    THEN InicioHoja(EnBlanco, IF tipo = "EC_BANCO"
                              THEN _guess_currency_from_sheet_name(doc[h].nombre)
                              ELSE _normaliza_moneda_iso(doc[h].nombre))
    ELSE LET e == HojaSola(h, n - 1)
         IN  IF e.pc = "fin" THEN e
             ELSE IF tipo = "EC_BANCO"
                  THEN get_ec_banco(e, doc[h].filas[n], <<h, n>>, doc[h].nombre)
                  ELSE get_ec_bultos_bco(e, doc[h].filas[n], <<h, n>>)

\* the records the rows of sheet h appended, in order
DeHoja(h) ==
    LET idx == SelectSeq([k \in 1..Len(registros) |-> k], LAMBDA k : origen[k][1] = h)
    IN  [j \in 1..Len(idx) |-> registros[idx[j]]]

\* C7: every sheet starts with no section, no motive and no opening balance, and
\* at every point of its scan the parse state and the records its rows appended are
\* those the sheet gives when it is scanned alone.
C7_HojasIndependientes ==
    hoja >= 1 =>
        /\ i_fila = 0 => (ing_egr = "" /\ motivo_actual = <<>> /\ saldo_anterior = <<>>)
        /\ LET e == HojaSola(hoja, i_fila)
           IN  /\ <<ing_egr, motivo_actual, saldo_anterior, agencia, fecha_archivo,
                    moneda_actual>>
                   = <<e.ing_egr, e.motivo_actual, e.saldo_anterior, e.agencia,
                       e.fecha_archivo, e.moneda_actual>>
               /\ DeHoja(hoja) = e.registros

\* the second sheet is being scanned, a dated row of it has been read, and the
\* sheet before it ended inside a section with an opening balance captured
C7_Testigo ==
    /\ hoja = 2
    /\ previa # <<>>
    /\ previa[1].ing_egr # ""
    /\ previa[1].saldo_anterior # <<>>
    /\ \E n \in 1..i_fila : LecturaBco[doc[hoja].filas[n]].m_date # <<>>

(***************************************************************************)
(* The inventory parsers: get_inv_atm of prosegur_unificado_v4_2.py and of *)
(* Consolidado_mejorado.py.  Texts, numbers and keyword tables.            *)
(***************************************************************************)
AGRUP_TOKENS ==
    <<<<"T","E","S","O","R","O"," ","A","T","M">>, <<"F","A","J","O","S"," ","A","T","M">>,
     <<"P","I","C","O","S"," ","A","T","M">>>>
TIPO_TOKENS ==
    <<<<"B","I","L","L","E","T","E","S"," ","(","L","A","D","R","I","L","L","O","S",")">>,
     <<"B","I","L","L","E","T","E","S">>>>
FIN_MONEDA_UP == <<"T","O","T","A","L"," ","D","E"," ","L","A"," ","M","O","N","E","D","A">>
STOP_ROW_TOKENS ==
    {<<"S","U","B"," ","T","O","T","A","L">>, <<"S","U","B","T","O","T","A","L">>,
     <<"T","O","T","A","L"," ","D","E","L"," ","D","E","P","Ó","S","I","T","O">>,
     <<"T","O","T","A","L"," ","D","E","L"," ","D","E","P","O","S","I","T","O">>,
     <<"T","O","T","A","L"," ","D","E","P","Ó","S","I","T","O">>,
     <<"T","O","T","A","L"," ","D","E","P","O","S","I","T","O">>}
TXT_GUARANI == <<"G","U","A","R","A","N","I">>
TXT_DOLAR == <<"D","O","L","A","R">>
SEP_ESPACIO == <<" ">>
SEP_BARRA == <<" ","|"," ">>

LetrasAZ == SubSeq(Mayusculas, 1, 26)
DigitosEnOrden == <<"0","1","2","3","4","5","6","7","8","9">>

_txt(x) == strip(x)

\* re.sub(r"\s+", " ", t)
RECURSIVE Colapsa(_)
Colapsa(s) ==
    IF s = <<>> THEN <<>>
    ELSE IF isspace(s[1]) THEN <<" ">> \o Colapsa(lstrip(s))
    ELSE <<s[1]>> \o Colapsa(Tail(s))

_upper(x) == upper(Colapsa(_txt(x)))

\* sep.join(parts)
RECURSIVE JoinCon(_, _)
JoinCon(parts, sep) ==
    IF parts = <<>> THEN <<>>
    ELSE IF Len(parts) = 1 THEN parts[1]
    ELSE parts[1] \o sep \o JoinCon(Tail(parts), sep)

\* int() of a text made of digits
RECURSIVE ValorDigitos(_)
ValorDigitos(d) ==
    IF d = <<>> THEN 0
    ELSE 10 * ValorDigitos(SubSeq(d, 1, Len(d) - 1)) + (Pos(DigitosEnOrden, d[Len(d)]) - 1)

\* re.fullmatch(r"\d+\.\d+", s)
EsDecimal(s) ==
    \E p \in 2..(Len(s) - 1) :
        /\ s[p] = "."
        /\ TodosDigitos(SubSeq(s, 1, p - 1))
        /\ TodosDigitos(SubSeq(s, p + 1, Len(s)))

\* _to_int on the text of a cell: <<>> for None, <<v>> for the integer v.
\* int(float(s)) of digits '.' digits is the integer before the point; int(digits)
\* raises unless digits is an optional '-' followed by digits only.
_to_int(x) ==
    LET s == strip(_txt(x))
        digits == SelectSeq(s, LAMBDA c : isdigit(c) \/ c = "-")
    IN  IF s = <<>> THEN <<>>
        ELSE IF EsDecimal(s) THEN <<ValorDigitos(SubSeq(s, 1, Pos(s, ".") - 1))>>
        ELSE IF digits = <<>> THEN <<>>
        ELSE IF TodosDigitos(digits) THEN <<ValorDigitos(digits)>>
        ELSE IF digits[1] = "-" /\ Len(digits) > 1 /\ TodosDigitos(Tail(digits))
             THEN <<0 - ValorDigitos(Tail(digits))>>
        ELSE <<>>

_to_int_denom(x) ==
    LET s_raw == _txt(x)
    IN  IF Esta(s_raw, ":") \/ Esta(s_raw, "/") THEN <<>> ELSE _to_int(s_raw)

\* capturar_codigo_total: TOTAL\s+DE\s+LA\s+MONEDA\s+([A-Z]{3}), re.IGNORECASE
capturar_codigo_total(row_text_upper) ==
    LET n == Len(FIN_MONEDA_UP)
        u == upper(row_text_upper)
        cand == {i \in Apariciones(u, FIN_MONEDA_UP) :
                     /\ i + n + 3 <= Len(u)
                     /\ isspace(u[i + n])
                     /\ \A k \in 1..3 : Esta(LetrasAZ, u[i + n + k])}
    IN  IF cand = {} THEN <<>>
        ELSE <<SubSeq(u, Min(cand) + n + 1, Min(cand) + n + 3)>>

\* prosegur_unificado_v4_2.py
normaliza_divisa_inventario(code_upper) ==
    LET code == upper(code_upper)
    IN  IF Contiene(code, ISO_PYG) \/ Contiene(_strip_accents(code), TXT_GUARANI) THEN ISO_PYG
        ELSE IF Contiene(code, ISO_USD) \/ Contiene(_strip_accents(code), TXT_DOLAR) THEN ISO_USD
        ELSE IF code # <<>> THEN code
        ELSE ISO_PYG

\* Consolidado_mejorado.py
normaliza_divisa_code(code_upper) ==
    LET up == upper(code_upper)
    IN  IF Contiene(up, ISO_USD) THEN ISO_USD
        ELSE IF Contiene(up, ISO_PYG) \/ Contiene(_strip_accents(up), TXT_GUARANI) THEN ISO_PYG
        ELSE up

(***************************************************************************)
(* The cells and rows the inventory sheets are built from.                 *)
(***************************************************************************)
C_TITULO == <<"R","e","p","o","r","t","e"," ","d","i","a","r","i","o">>
C_DIV_USD == <<"U","S","D">>
C_TESORO == <<"T","e","s","o","r","o"," ","A","T","M">>
C_BILLETES == <<"B","i","l","l","e","t","e","s">>
C_50000 == <<"5","0","0","0","0">>
C_12 == <<"1","2">>
C_600000 == <<"6","0","0","0","0","0">>
C_HORA == <<"6",":","2","8">>
C_FECHA_INV == <<"2","3","/","1","0","/","2","0","2","5">>
C_FIN == <<"T","o","t","a","l"," ","d","e"," ","l","a"," ","m","o","n","e","d","a"," ","U","S","D">>
C_SUBTOTAL == <<"S","u","b"," ","T","o","t","a","l">>

F_TITULO == <<C_TITULO>>
F_DIVISA == <<C_DIV_USD>>
F_AGRUP == <<C_TESORO>>
F_TIPO == <<C_BILLETES>>
F_NUM == <<C_50000, C_12, TXT_CERO, TXT_CERO, TXT_CERO, C_600000>>
F_HORA == <<C_HORA, C_FECHA_INV>>
F_CLASIFICADA == <<C_TESORO, C_BILLETES, C_50000, C_12, TXT_CERO, TXT_CERO, TXT_CERO, C_600000>>
F_FIN == <<C_FIN>>
F_SUBTOTAL == <<C_SUBTOTAL, C_600000>>

FilasINV ==
    {F_TITULO, F_DIVISA, F_AGRUP, F_TIPO, F_NUM, F_HORA, F_CLASIFICADA, F_FIN, F_SUBTOTAL}

\* the cells and rows of the bank inventory (get_inv_bco of Consolidado_mejorado.py)
C_TESORO_BCO == <<"T","e","s","o","r","o"," ","E","f","e","c","t","i","v","o">>
C_CAB_DIVISA == <<"D","i","v","i","s","a">>
C_CAB_DENOM == <<"D","e","n","o","m","i","n","a","c","i","ó","n">>
C_CAB_DEPOSITO == <<"D","e","p","ó","s","i","t","o">>
C_CAB_CJE == <<"C","j","e","/","D","e","p">>
C_CAB_IMPORTE == <<"I","m","p","o","r","t","e"," ","T","o","t","a","l">>

F_CABECERA == <<C_CAB_DIVISA, C_CAB_DENOM, C_CAB_DEPOSITO, C_CAB_CJE, C_CAB_IMPORTE>>
F_CLASIFICADA_BCO ==
    <<C_TESORO_BCO, C_BILLETES, C_50000, C_12, TXT_CERO, TXT_CERO, TXT_CERO, C_600000>>

FilasInvBco == {F_TITULO, F_CABECERA, F_DIVISA, F_CLASIFICADA_BCO, F_NUM, F_FIN}

\* rows with fewer than five numbers right of the denomination, and with a clock time
\* and a date among the cells right of it
C_ND == <<"n",".","d",".">>
F_CORTA == <<C_TESORO, C_BILLETES, C_50000, C_12, C_ND, C_600000>>
F_CON_HORA == <<C_TESORO, C_BILLETES, C_50000, C_HORA, C_12, C_FECHA_INV, C_600000>>

FilasValores == {F_DIVISA, F_AGRUP, F_NUM, F_CLASIFICADA, F_CORTA, F_CON_HORA, F_FIN}

\* rows for the sticky currency: a PYG row, a subtotal row that holds the cell USD, and
\* end rows with the code EUR and with no code
C_DIV_PYG == <<"P","Y","G">>
C_FIN_EUR == <<"T","o","t","a","l"," ","d","e"," ","l","a"," ","m","o","n","e","d","a"," ","E","U","R">>
C_FIN_SIN == <<"T","o","t","a","l"," ","d","e"," ","l","a"," ","m","o","n","e","d","a">>
F_DIVISA_PYG == <<C_DIV_PYG>>
F_SUBTOTAL_USD == <<C_SUBTOTAL, C_DIV_USD>>
F_FIN_EUR == <<C_FIN_EUR>>
F_FIN_SIN == <<C_FIN_SIN>>

FilasDivisa ==
    {F_DIVISA, F_DIVISA_PYG, F_CLASIFICADA, F_SUBTOTAL_USD, F_FIN, F_FIN_EUR, F_FIN_SIN}

\* the column numbers of row whose cell reads as a number, left to right:
\* [j for j, c in enumerate(row.tolist()) if _to_int_denom(c) is not None]
lista_columnas_denom(row) ==
    SelectSeq([j \in 1..Len(row) |-> j], LAMBDA j : _to_int_denom(row[j]) # <<>>)

\* the columns of lista_numeros_con_indices: the same with plain _to_int
lista_numeros_con_indices(row) ==
    SelectSeq([j \in 1..Len(row) |-> j], LAMBDA j : _to_int(row[j]) # <<>>)

\* what the parsers compute from a row, whatever the state of the walk
LeerFilaInv(row) ==
    LET up == [j \in 1..Len(row) |-> _upper(row[j])]
        up_line == JoinCon(up, SEP_ESPACIO)
        row_up == JoinCon(up, SEP_BARRA)
    IN  [up_line |-> up_line,
         row_up |-> row_up,
         ups |-> SelectSeq(up, LAMBDA c : c # <<>>),
         es_fin |-> Contiene(row_up, FIN_MONEDA_UP),
         code |-> capturar_codigo_total(row_up),
         es_stop |-> Contiene(up_line, FIN_MONEDA_UP) \/ AlgunaEn(STOP_ROW_TOKENS, up_line),
         nums_denom |-> lista_columnas_denom(row),
         nums |-> lista_numeros_con_indices(row)]

LecturaInv == [row \in FilasINV \cup FilasInvBco \cup FilasValores \cup FilasDivisa
                   |-> LeerFilaInv(row)]

\* " ".join(_upper(c) for c in left_cells if _txt(c))
left_up(row, denom_col) ==
    JoinCon(SelectSeq([j \in 1..(denom_col - 1) |-> _upper(row[j])], LAMBDA c : c # <<>>),
            SEP_ESPACIO)

\* the first token of the list that the text contains: <<>> or <<token>>
PrimerToken(tokens, texto) ==
    LET c == {k \in 1..Len(tokens) : Contiene(texto, tokens[k])}
    IN  IF c = {} THEN <<>> ELSE <<tokens[Min(c)]>>

\* the end bound never found: one past the last row, and no code
buscar_fin_y_codigo_sin_fin(df) == <<Len(df) + 1, <<>>>>

\* buscar_fin_y_codigo: <<row_end, code>>; row_end is one past the last row when no
\* row holds FIN_MONEDA_UP
buscar_fin_y_codigo(df) ==
    LET c == {i \in 1..Len(df) : LecturaInv[df[i]].es_fin}
    IN  IF c = {} THEN <<Len(df) + 1, <<>>>> ELSE <<Min(c), LecturaInv[df[Min(c)]].code>>

buscar_inicio_por_divisa(df, fin) ==
    LET c == {i \in 1..(fin - 1) :
                  Esta(LecturaInv[df[i]].ups, ISO_USD) \/ Esta(LecturaInv[df[i]].ups, ISO_PYG)}
    IN  IF c = {} THEN None ELSE Min(c)

\* numericas names the field of the row reading that lists the numeric columns:
\* "nums_denom" in prosegur_unificado_v4_2.py, "nums" in Consolidado_mejorado.py
buscar_inicio_fallback(df, fin, numericas) ==
    LET c == {i \in 1..(fin - 1) :
                  /\ LecturaInv[df[i]][numericas] # <<>>
                  /\ PrimerToken(AGRUP_TOKENS,
                                 left_up(df[i], LecturaInv[df[i]][numericas][1])) # <<>>}
    IN  IF c = {} THEN None ELSE Min(c)

\* a or b of Python on row indices: the first row of the sheet has index 0, which is false
O_indice(a, b) == IF a = None \/ a = 1 THEN b ELSE a

\* localiza_bloque of prosegur_unificado_v4_2.py: <<row_start, row_end, moneda_codigo>>,
\* row_start = None when ValueError is raised
localiza_bloque_v4_2(df) ==
    LET f == buscar_fin_y_codigo(df)
    IN  <<O_indice(buscar_inicio_por_divisa(df, f[1]),
                   buscar_inicio_fallback(df, f[1], "nums_denom")),
          f[1], f[2]>>

\* localiza_bloque of Consolidado_mejorado.py
localiza_bloque_cm(df) ==
    LET f == buscar_fin_y_codigo(df)
        d == buscar_inicio_por_divisa(df, f[1])
    IN  <<IF d = None THEN buscar_inicio_fallback(df, f[1], "nums") ELSE d, f[1], f[2]>>

(***************************************************************************)
(* The row walk of get_inv_atm.                                            *)
(***************************************************************************)
EstadoInv ==
    [cur_divisa |-> cur_divisa, cur_agrup |-> cur_agrup, cur_tipo |-> cur_tipo,
     registros |-> registros, origen |-> origen, denom_cols |-> denom_cols]

\* the currency of the sheet never renewed by a row
ActualizaDivisa_nunca(e, L) == e

\* if "USD" in ups: cur_divisa = 'USD' / elif "PYG" in ups: cur_divisa = 'PYG'
ActualizaDivisa(e, L) ==
    [e EXCEPT !.cur_divisa = IF Esta(L.ups, ISO_USD) THEN ISO_USD
                             ELSE IF Esta(L.ups, ISO_PYG) THEN ISO_PYG
                             ELSE @]

\* the sticky classifiers, renewed from the cells left of the denomination
Clasifica(e, izquierda) ==
    LET t == PrimerToken(TIPO_TOKENS, izquierda)
        a == PrimerToken(AGRUP_TOKENS, izquierda)
    IN  [e EXCEPT !.cur_tipo = IF t # <<>> THEN t[1] ELSE @,
                  !.cur_agrup = IF a # <<>> THEN a[1] ELSE @]

\* if not (cur_agrup or cur_tipo): continue
SinClasificar(e) == ~(e.cur_agrup # <<>> \/ e.cur_tipo # <<>>)

\* the search that begins at column desde itself
siguiente_numero_desde(row, desde_col) ==
    LET c == {j \in desde_col..Len(row) : _to_int(row[j]) # <<>>}
    IN  IF c = {} THEN <<Len(row) + 1, 0>> ELSE <<Min(c), _to_int(row[Min(c)])[1]>>

\* the next numeric cell right of column desde: <<column, value>>, or one past the
\* last column and 0
siguiente_numero_a_la_derecha(row, desde_col) ==
    LET c == {j \in (desde_col + 1)..Len(row) : _to_int(row[j]) # <<>>}
    IN  IF c = {} THEN <<Len(row) + 1, 0>> ELSE <<Min(c), _to_int(row[Min(c)])[1]>>

\* the n values read by n successive calls, each starting where the last one ended
RECURSIVE Valores(_, _, _)
Valores(row, idx, n) ==
    IF n = 0 THEN <<>>
    ELSE LET sig == siguiente_numero_a_la_derecha(row, idx)
         IN  <<sig[2]>> \o Valores(row, sig[1], n - 1)

RegistroInv(e, row, denom_col, denom_val) ==
    LET vals == Valores(row, denom_col, 5)
    IN  [DIVISA |-> IF e.cur_divisa # <<>> THEN e.cur_divisa ELSE ISO_PYG,
         AGRUPACION_EFECTIVO |-> e.cur_agrup, TIPO_VALOR |-> e.cur_tipo,
         DENOMINACION |-> denom_val,
         DEPOSITO |-> vals[1], CJE_DEP |-> vals[2], CANJE |-> vals[3], MONEDA |-> vals[4],
         IMPORTE_TOTAL |-> vals[5]]

AnotaInv(e, reg, donde, denom_col) ==
    [e EXCEPT !.registros = Append(@, reg), !.origen = Append(@, donde),
              !.denom_cols = Append(@, <<donde[2], denom_col>>)]

\* the body of "for i in range(lim['row_start'], lim['row_end'])",
\* prosegur_unificado_v4_2.py
fila_v4_2(e, row, donde) ==
    LET L == LecturaInv[row]
        e1 == ActualizaDivisa(e, L)
    IN  IF L.es_stop THEN e
        ELSE IF L.nums_denom = <<>> THEN e1
        ELSE LET denom_col == L.nums_denom[1]
                 e2 == Clasifica(e1, left_up(row, denom_col))
             IN  IF SinClasificar(e2) THEN e2
                 ELSE AnotaInv(e2, RegistroInv(e2, row, denom_col,
                                               _to_int_denom(row[denom_col])[1]),
                               donde, denom_col)

\* include_zeros: bool = True, and no caller passes it
include_zeros == TRUE

\* the body of the row loop of parsea_cuerpo, Consolidado_mejorado.py
fila_cm(e, row, donde) ==
    LET L == LecturaInv[row]
        e1 == ActualizaDivisa(e, L)
    IN  IF L.es_stop THEN e
        ELSE IF L.nums = <<>> THEN e1
        ELSE LET denom_col == L.nums[1]
                 e2 == Clasifica(e1, left_up(row, denom_col))
                 reg == RegistroInv(e2, row, denom_col, _to_int(row[denom_col])[1])
             IN  IF include_zeros \/ reg.DEPOSITO # 0 \/ reg.CJE_DEP # 0 \/ reg.CANJE # 0
                        \/ reg.MONEDA # 0 \/ reg.IMPORTE_TOTAL # 0
                 THEN AnotaInv(e2, reg, donde, denom_col)
                 ELSE e2

MaxFilasInv == 5

InitInv ==
    /\ tipo = "INV_ATM"
    /\ variante \in {"v4_2", "Consolidado_mejorado"}
    /\ descartar_usd_cero = TRUE
    /\ doc \in {<<[nombre |-> N_HOJA1, filas |-> g]>> : g \in Grillas(FilasINV, MaxFilasInv)}
    /\ hoja = 1
    /\ i_fila = 0
    /\ pc = "localiza"
    /\ row_start = None
    /\ row_end = None
    /\ cur_divisa = <<>>
    /\ cur_agrup = <<>>
    /\ cur_tipo = <<>>
    /\ registros = <<>>
    /\ origen = <<>>
    /\ denom_cols = <<>>
    /\ agencia = <<>>
    /\ fecha_archivo = <<>>
    /\ ing_egr = ""
    /\ motivo_actual = <<>>
    /\ saldo_ant_usd = <<>>
    /\ saldo_ant_pyg = <<>>
    /\ SinBanco
    /\ SinOtros

AsignaInv(e) ==
    /\ cur_divisa' = e.cur_divisa
    /\ cur_agrup' = e.cur_agrup
    /\ cur_tipo' = e.cur_tipo
    /\ registros' = e.registros
    /\ origen' = e.origen
    /\ denom_cols' = e.denom_cols

\* lim = localiza_bloque(df) and the assignments before the row walk; the sheet is
\* left out ("omitida") when localiza_bloque raises ValueError
Localiza(lim, divisa) ==
    /\ pc = "localiza"
    /\ row_start' = lim[1]
    /\ row_end' = lim[2]
    /\ IF lim[1] = None
       THEN pc' = "omitida" /\ i_fila' = i_fila /\ cur_divisa' = cur_divisa
       ELSE pc' = "filas" /\ i_fila' = lim[1] - 1 /\ cur_divisa' = divisa
    /\ cur_agrup' = <<>>
    /\ cur_tipo' = <<>>
    /\ UNCHANGED <<varsOtros, tipo, descartar_usd_cero, doc, hoja, registros, origen, denom_cols,
                   variante, varsEC>>

LocalizaV42 ==
    /\ variante = "v4_2"
    /\ LET lim == localiza_bloque_v4_2(doc[hoja].filas)
       IN  Localiza(lim, normaliza_divisa_inventario(IF lim[3] # <<>> THEN lim[3][1] ELSE <<>>))

LocalizaCM ==
    /\ variante = "Consolidado_mejorado"
    /\ LET lim == localiza_bloque_cm(doc[hoja].filas)
       IN  Localiza(lim, normaliza_divisa_code(IF lim[3] # <<>> THEN lim[3][1] ELSE <<>>))

\* one iteration of the row walk
Camina(e) ==
    /\ AsignaInv(e)
    /\ i_fila' = i_fila + 1
    /\ UNCHANGED <<varsOtros, tipo, descartar_usd_cero, doc, hoja, pc, variante, row_start, row_end,
                   varsEC>>

FilaV42 ==
    /\ variante = "v4_2"
    /\ pc = "filas"
    /\ i_fila + 1 < row_end
    /\ Camina(fila_v4_2(EstadoInv, doc[hoja].filas[i_fila + 1], <<hoja, i_fila + 1>>))

FilaCM ==
    /\ variante = "Consolidado_mejorado"
    /\ pc = "filas"
    /\ i_fila + 1 < row_end
    /\ Camina(fila_cm(EstadoInv, doc[hoja].filas[i_fila + 1], <<hoja, i_fila + 1>>))

NextInv == LocalizaV42 \/ LocalizaCM \/ FilaV42 \/ FilaCM

SpecInv == InitInv /\ [][NextInv]_vars

(***************************************************************************)
(* Claims on the inventory row walk.                                       *)
(***************************************************************************)
FilaInv(n) == doc[hoja].filas[n]

\* the cell the k-th line took its DENOMINACION from
CeldaDenominacion(k) == FilaInv(denom_cols[k][1])[denom_cols[k][2]]

\* C8: every inventory line is emitted with CASH_GROUPING or VALUE_TYPE set; a
\* numeric row read while neither classifier is set gives no line.
C8_PuertaClasificador ==
    \A k \in 1..Len(registros) :
        registros[k].AGRUPACION_EFECTIVO # <<>> \/ registros[k].TIPO_VALOR # <<>>

\* a line emitted by a numeric row read with neither classifier set
C8_Testigo ==
    \E k \in 1..Len(registros) :
        /\ registros[k].AGRUPACION_EFECTIVO = <<>>
        /\ registros[k].TIPO_VALOR = <<>>
        /\ registros[k].DENOMINACION = 50000

\* C9: no inventory line has a DENOMINATION read from a cell that contains ':' or
\* '/' (a clock time or a date).
C9_SinHoraNiFecha ==
    \A k \in 1..Len(registros) :
        ~Esta(CeldaDenominacion(k), ":") /\ ~Esta(CeldaDenominacion(k), "/")

\* a line whose DENOMINATION is the clock time 6:28 read as 628
C9_Testigo ==
    \E k \in 1..Len(registros) :
        CeldaDenominacion(k) = C_HORA /\ registros[k].DENOMINACION = 628

\* the rows n, n+1, n+2 are the grouping row, the type row and the numeric row, and
\* the row walk has read all three
TresFilasLeidas(n) ==
    /\ pc = "filas"
    /\ row_start <= n
    /\ n + 2 <= i_fila
    /\ FilaInv(n) = F_AGRUP
    /\ FilaInv(n + 1) = F_TIPO
    /\ FilaInv(n + 2) = F_NUM

\* C10: a row with only TESORO ATM, then a row with only BILLETES, then the row
\* [50000, 12, 0, 0, 0, 600000] give exactly one line, with DENOMINATION 50000,
\* DEPOSITO 12, total 600000, and that grouping and type.
C10_UnaLineaClasificada ==
    \A n \in 1..(Len(doc[hoja].filas) - 2) :
        TresFilasLeidas(n) =>
            /\ Emitidos(n) = {}
            /\ Emitidos(n + 1) = {}
            /\ Cardinality(Emitidos(n + 2)) = 1
            /\ \A k \in Emitidos(n + 2) :
                   /\ registros[k].DENOMINACION = 50000
                   /\ registros[k].DEPOSITO = 12
                   /\ registros[k].IMPORTE_TOTAL = 600000
                   /\ registros[k].AGRUPACION_EFECTIVO = AGRUP_TOKENS[1]
                   /\ registros[k].TIPO_VALOR = TIPO_TOKENS[2]

\* the three rows read by prosegur_unificado_v4_2 with no line emitted
C10_Testigo ==
    \E n \in 1..(Len(doc[hoja].filas) - 2) :
        TresFilasLeidas(n) /\ variante = "v4_2" /\ Emitidos(n + 2) = {}

\* the three rows read by Consolidado_mejorado with one line emitted, unclassified
C10_SinClasificar ==
    \E n \in 1..(Len(doc[hoja].filas) - 2) :
        /\ TresFilasLeidas(n)
        /\ variante = "Consolidado_mejorado"
        /\ \E k \in Emitidos(n + 2) :
               registros[k].AGRUPACION_EFECTIVO = <<>> /\ registros[k].TIPO_VALOR = <<>>

\* the gate as prosegur_unificado_v4_2 has it
C8_PuertaV42 == variante = "v4_2" => C8_PuertaClasificador

\* the denomination reader as prosegur_unificado_v4_2 has it
C9_SinHoraNiFechaV42 == variante = "v4_2" => C9_SinHoraNiFecha

(***************************************************************************)
(* get_inv_atm over a workbook of several sheets: "for sheet in            *)
(* xls.sheet_names" with the body of each iteration inside try/except.     *)
(***************************************************************************)
MaxHojasInv == 2
MaxFilasHojaInv == 3

FilasInvDoc == {F_TITULO, F_DIVISA, F_CLASIFICADA, F_FIN}

HojasInv ==
    {[nombre |-> N_HOJA1, filas |-> g] : g \in Grillas(FilasInvDoc, MaxFilasHojaInv)}

InitInvDoc ==
    /\ tipo = "INV_ATM"
    /\ variante \in {"v4_2", "Consolidado_mejorado"}
    /\ descartar_usd_cero = TRUE
    /\ doc \in UNION {[1..k -> HojasInv] : k \in 1..MaxHojasInv}
    /\ hoja = 1
    /\ i_fila = 0
    /\ pc = "localiza"
    /\ row_start = None
    /\ row_end = None
    /\ cur_divisa = <<>>
    /\ cur_agrup = <<>>
    /\ cur_tipo = <<>>
    /\ registros = <<>>
    /\ origen = <<>>
    /\ denom_cols = <<>>
    /\ agencia = <<>>
    /\ fecha_archivo = <<>>
    /\ ing_egr = ""
    /\ motivo_actual = <<>>
    /\ saldo_ant_usd = <<>>
    /\ saldo_ant_pyg = <<>>
    /\ SinBanco
    /\ SinOtros

\* a sheet caught by "except Exception as e: ...; continue" but never left
HojaTerminada_sin_except == pc = "filas" /\ i_fila + 1 >= row_end

\* the iteration of the sheet loop is over: the row walk has ended, or the
\* ValueError of localiza_bloque was caught by the except clause
HojaTerminada == pc = "omitida" \/ (pc = "filas" /\ i_fila + 1 >= row_end)

\* the sheet loop takes the next sheet
SiguienteHojaInv ==
    /\ HojaTerminada
    /\ hoja < Len(doc)
    /\ hoja' = hoja + 1
    /\ pc' = "localiza"
    /\ i_fila' = 0
    /\ UNCHANGED <<varsOtros, tipo, descartar_usd_cero, doc, registros, origen, varsEC, varsInv>>

NextInvDoc == LocalizaV42 \/ LocalizaCM \/ FilaV42 \/ FilaCM \/ SiguienteHojaInv

SpecInvDoc == InitInvDoc /\ [][NextInvDoc]_vars

\* localiza_bloque raises on sheet h
SinInicio(h) ==
    IF variante = "v4_2"
    THEN localiza_bloque_v4_2(doc[h].filas)[1] = None
    ELSE localiza_bloque_cm(doc[h].filas)[1] = None

\* the lines that came from sheet h
LineasDeHoja(h) == {k \in 1..Len(registros) : origen[k][1] = h}

\* C11: a sheet with no start bound gives no line, and the sheet loop goes on with
\* the next sheet after it: the failure ends neither the parse nor the other sheets.
C11_FalloPorHoja ==
    /\ \A h \in 1..hoja : SinInicio(h) => LineasDeHoja(h) = {}
    /\ (pc = "omitida" /\ hoja < Len(doc)) => ENABLED SiguienteHojaInv
    /\ pc = "omitida" => SinInicio(hoja)

\* the first sheet had no start bound and the second one has given a line
C11_Testigo ==
    /\ hoja = 2
    /\ SinInicio(1)
    /\ LineasDeHoja(1) = {}
    /\ LineasDeHoja(2) # {}

(***************************************************************************)
(* Output formatting: a table is its tuple of column labels, left to       *)
(* right, and its number of rows.                                          *)
(***************************************************************************)
K_FECHA == <<"F","E","C","H","A">>
K_SUCURSAL == <<"S","U","C","U","R","S","A","L">>
K_RECIBO == <<"R","E","C","I","B","O">>
K_BULTOS == <<"B","U","L","T","O","S">>
K_GUARANIES == <<"G","U","A","R","A","N","I","E","S">>
K_DOLARES == <<"D","O","L","A","R","E","S">>
K_ING_EGR == <<"I","N","G","_","E","G","R">>
K_CLASIFICACION == <<"C","L","A","S","I","F","I","C","A","C","I","O","N">>
K_FECHA_ARCHIVO == <<"F","E","C","H","A","_","A","R","C","H","I","V","O">>
K_MOTIVO_MOVIMIENTO == <<"M","O","T","I","V","O","_","M","O","V","I","M","I","E","N","T","O">>
K_AGENCIA == <<"A","G","E","N","C","I","A">>
K_SALDO_ANTERIOR_PYG ==
    <<"S","A","L","D","O","_","A","N","T","E","R","I","O","R","_","P","Y","G">>
K_SALDO_ANTERIOR_USD ==
    <<"S","A","L","D","O","_","A","N","T","E","R","I","O","R","_","U","S","D">>
K_IMPORTE == <<"I","M","P","O","R","T","E">>
K_MONEDA == <<"M","O","N","E","D","A">>
K_HOJA_ORIGEN == <<"H","O","J","A","_","O","R","I","G","E","N">>
K_SALDO_ANTERIOR == <<"S","A","L","D","O","_","A","N","T","E","R","I","O","R">>
K_FECHA_OPER == <<"F","E","C","H","A","_","O","P","E","R">>
K_MONTO == <<"M","O","N","T","O">>
K_FECHA_RECIBO == <<"F","E","C","H","A","_","R","E","C","I","B","O">>
K_FECHA_INVENTARIO == <<"F","E","C","H","A","_","I","N","V","E","N","T","A","R","I","O">>
K_DIVISA == <<"D","I","V","I","S","A">>
K_AGRUPACION_EFECTIVO ==
    <<"A","G","R","U","P","A","C","I","O","N","_","E","F","E","C","T","I","V","O">>
K_TIPO_VALOR == <<"T","I","P","O","_","V","A","L","O","R">>
K_DENOMINACION == <<"D","E","N","O","M","I","N","A","C","I","O","N">>
K_DEPOSITO == <<"D","E","P","O","S","I","T","O">>
K_CJE_DEP == <<"C","J","E","_","D","E","P">>
K_CANJE == <<"C","A","N","J","E">>
K_IMPORTE_TOTAL == <<"I","M","P","O","R","T","E","_","T","O","T","A","L">>
K_MOTIVO_ESPACIO == <<"M","O","T","I","V","O"," ","M","O","V","I","M","I","E","N","T","O">>
K_fecha_oper == <<"F","e","c","h","a"," ","O","p","e","r">>
K_OTRA == <<"O","b","s">>

orden_final_ec ==
    <<K_FECHA,K_SUCURSAL,K_RECIBO,K_BULTOS,K_GUARANIES,K_DOLARES,K_ING_EGR,K_CLASIFICACION,
      K_FECHA_ARCHIVO,K_MOTIVO_MOVIMIENTO,K_AGENCIA,K_SALDO_ANTERIOR_PYG,
      K_SALDO_ANTERIOR_USD>>

orden_final_ec_banco ==
    <<K_FECHA,K_SUCURSAL,K_RECIBO,K_BULTOS,K_IMPORTE,K_MONEDA,K_ING_EGR,K_CLASIFICACION,
      K_FECHA_ARCHIVO,K_MOTIVO_MOVIMIENTO,K_AGENCIA,K_HOJA_ORIGEN,K_SALDO_ANTERIOR>>

orden_final_bultos ==
    <<K_FECHA,K_SUCURSAL,K_RECIBO,K_BULTOS,K_MONEDA,K_IMPORTE,K_ING_EGR,K_CLASIFICACION,
      K_FECHA_ARCHIVO,K_MOTIVO_MOVIMIENTO,K_AGENCIA,K_SALDO_ANTERIOR_PYG,
      K_SALDO_ANTERIOR_USD>>

orden_final_bultos_bco ==
    <<K_FECHA,K_SUCURSAL,K_RECIBO,K_BULTOS,K_MONEDA,K_IMPORTE,K_ING_EGR,K_CLASIFICACION,
      K_FECHA_ARCHIVO,K_MOTIVO_MOVIMIENTO,K_AGENCIA,K_SALDO_ANTERIOR>>

columnas_sql ==
    <<K_FECHA_RECIBO,K_SUCURSAL,K_RECIBO,K_BULTOS,K_MONEDA,K_IMPORTE,K_ING_EGR,
      K_CLASIFICACION,K_FECHA_ARCHIVO,K_MOTIVO_MOVIMIENTO,K_AGENCIA>>

\* [str(c).replace(' ', '_').upper() for c in df.columns]
NormalizaEtiquetas(columns) ==
    [i \in 1..Len(columns) |->
        upper([j \in 1..Len(columns[i]) |->
                  IF columns[i][j] = " " THEN "_" ELSE columns[i][j]])]

\* df.rename(columns={de: a})
rename(columns, de, a) == [i \in 1..Len(columns) |-> IF columns[i] = de THEN a ELSE columns[i]]

\* for col in orden: if col not in df.columns: df[col] = ''
RECURSIVE CompletaColumnas(_, _)
CompletaColumnas(columns, orden) ==
    IF orden = <<>> THEN columns
    ELSE CompletaColumnas(IF Esta(columns, Head(orden)) THEN columns
                          ELSE Append(columns, Head(orden)),
                          Tail(orden))

\* df[orden]: for each label of orden in turn, every column that carries it
RECURSIVE SeleccionaColumnas(_, _)
SeleccionaColumnas(columns, orden) ==
    IF orden = <<>> THEN <<>>
    ELSE SelectSeq(columns, LAMBDA c : c = Head(orden)) \o SeleccionaColumnas(columns, Tail(orden))

Ordena(columns, orden) == SeleccionaColumnas(CompletaColumnas(columns, orden), orden)

_ordenar_y_renombrar_columnas_ec(df) ==
    [df EXCEPT !.columns =
        Ordena(rename(rename(NormalizaEtiquetas(@), K_FECHA_OPER, K_FECHA),
                      K_MOTIVO_ESPACIO, K_MOTIVO_MOVIMIENTO),
               orden_final_ec)]

_ordenar_y_renombrar_columnas_ec_banco(df) ==
    [df EXCEPT !.columns =
        Ordena(rename(rename(rename(NormalizaEtiquetas(@), K_FECHA_OPER, K_FECHA),
                             K_MONTO, K_IMPORTE),
                      K_MOTIVO_ESPACIO, K_MOTIVO_MOVIMIENTO),
               orden_final_ec_banco)]

_ordenar_y_renombrar_columnas_bultos(df) ==
    [df EXCEPT !.columns =
        Ordena(rename(NormalizaEtiquetas(@), K_FECHA_OPER, K_FECHA), orden_final_bultos)]

_ordenar_y_renombrar_columnas_bultos_bco(df) ==
    [df EXCEPT !.columns =
        Ordena(rename(NormalizaEtiquetas(@), K_FECHA_OPER, K_FECHA), orden_final_bultos_bco)]

\* the body of "for tipo in [EC_EFECT_ATM, EC_BULTO_ATM]" of Example.py
normaliza_columnas_sql(df) ==
    [df EXCEPT !.columns =
        Ordena(IF Esta(@, K_MONTO) /\ ~Esta(@, K_IMPORTE) THEN rename(@, K_MONTO, K_IMPORTE)
               ELSE @,
               columnas_sql)]

MaxColumnas == 3

EtiquetasEntrada ==
    {K_FECHA_OPER, K_FECHA, K_fecha_oper, K_MOTIVO_ESPACIO, K_MOTIVO_MOVIMIENTO, K_SUCURSAL,
     K_MONTO, K_IMPORTE, K_OTRA}

\* the column tuples a table built from records can have: no label twice
ColumnasEntrada ==
    {c \in Grillas(EtiquetasEntrada, MaxColumnas) :
        \A i, j \in 1..Len(c) : c[i] = c[j] => i = j}

\* no parser at work
SinParser ==
    /\ descartar_usd_cero = TRUE
    /\ doc = <<>>
    /\ hoja = 0
    /\ i_fila = 0
    /\ pc = ""
    /\ registros = <<>>
    /\ origen = <<>>
    /\ agencia = <<>>
    /\ fecha_archivo = <<>>
    /\ ing_egr = ""
    /\ motivo_actual = <<>>
    /\ saldo_ant_usd = <<>>
    /\ saldo_ant_pyg = <<>>
    /\ SinBanco
    /\ SinInventario

InitDf ==
    /\ tipo \in {"EC_ATM", "EC_EFECT_BCO", "EC_BULTOS_ATM", "EC_BULTOS_BCO", "EC_EFECT_ATM",
                 "EC_BULTO_ATM"}
    /\ df_in \in [columns : ColumnasEntrada, filas : 0..1]
    /\ df_out = [columns |-> <<>>, filas |-> 0]
    /\ pc_df = "entrada"
    /\ SinParser
    /\ SinMain
    /\ SinResto

Formatea(salida) ==
    /\ pc_df = "entrada"
    /\ df_out' = salida
    /\ pc_df' = "salida"
    /\ UNCHANGED <<varsParser, varsMain, varsResto, df_in>>

OrdenaEC == tipo = "EC_ATM" /\ Formatea(_ordenar_y_renombrar_columnas_ec(df_in))

OrdenaECBanco == tipo = "EC_EFECT_BCO" /\ Formatea(_ordenar_y_renombrar_columnas_ec_banco(df_in))

OrdenaBultos == tipo = "EC_BULTOS_ATM" /\ Formatea(_ordenar_y_renombrar_columnas_bultos(df_in))

OrdenaBultosBco ==
    tipo = "EC_BULTOS_BCO" /\ Formatea(_ordenar_y_renombrar_columnas_bultos_bco(df_in))

NormalizaSql == tipo \in {"EC_EFECT_ATM", "EC_BULTO_ATM"} /\ Formatea(normaliza_columnas_sql(df_in))

NextDf == OrdenaEC \/ OrdenaECBanco \/ OrdenaBultos \/ OrdenaBultosBco \/ NormalizaSql

SpecDf == InitDf /\ [][NextDf]_vars

\* the fixed columns of the sub-type, in canonical order
ColumnasFijas ==
    IF tipo = "EC_ATM" THEN orden_final_ec
    ELSE IF tipo = "EC_EFECT_BCO" THEN orden_final_ec_banco
    ELSE IF tipo = "EC_BULTOS_ATM" THEN orden_final_bultos
    ELSE IF tipo = "EC_BULTOS_BCO" THEN orden_final_bultos_bco
    ELSE columnas_sql

columnas_ec_atm ==
    <<K_FECHA_OPER, K_SUCURSAL, K_RECIBO, K_BULTOS, K_GUARANIES, K_DOLARES, K_ING_EGR,
      K_CLASIFICACION, K_FECHA_ARCHIVO, K_MOTIVO_MOVIMIENTO, K_AGENCIA, K_SALDO_ANTERIOR_PYG,
      K_SALDO_ANTERIOR_USD>>

columnas_ec_banco ==
    <<K_HOJA_ORIGEN, K_AGENCIA, K_FECHA_ARCHIVO, K_ING_EGR, K_CLASIFICACION, K_MOTIVO_ESPACIO,
      K_FECHA_OPER, K_SUCURSAL, K_RECIBO, K_BULTOS, K_MONEDA, K_MONTO, K_SALDO_ANTERIOR>>

columnas_bultos_atm ==
    <<K_FECHA_OPER, K_SUCURSAL, K_RECIBO, K_BULTOS, K_MONEDA, K_IMPORTE, K_ING_EGR,
      K_CLASIFICACION, K_FECHA_ARCHIVO, K_MOTIVO_MOVIMIENTO, K_AGENCIA, K_SALDO_ANTERIOR_PYG,
      K_SALDO_ANTERIOR_USD>>

cols_inv ==
    <<K_FECHA_INVENTARIO, K_DIVISA, K_AGENCIA, K_AGRUPACION_EFECTIVO, K_TIPO_VALOR,
      K_DENOMINACION, K_DEPOSITO, K_CJE_DEP, K_CANJE, K_MONEDA, K_IMPORTE_TOTAL>>

\* the number of records of a document that has some
N_REGISTROS == 2

Filas(parse) == IF parse = "registros" THEN N_REGISTROS ELSE 0

\* what a ledger parser writes and returns after its scan: the table, never None
salida_ledger(tipo_doc, parse) ==
    IF tipo_doc = "EC_ATM"
    THEN <<_ordenar_y_renombrar_columnas_ec(
               [columns |-> columnas_ec_atm, filas |-> Filas(parse)])>>
    ELSE IF tipo_doc = "EC_EFECT_BCO"
    THEN <<_ordenar_y_renombrar_columnas_ec_banco(
               [columns |-> rename(columnas_ec_banco, K_MOTIVO_ESPACIO, K_MOTIVO_MOVIMIENTO),
                filas |-> Filas(parse)])>>
    ELSE IF tipo_doc = "EC_BULTOS_ATM"
    THEN <<_ordenar_y_renombrar_columnas_bultos(
               [columns |-> columnas_bultos_atm, filas |-> Filas(parse)])>>
    ELSE <<_ordenar_y_renombrar_columnas_bultos_bco(
               [columns |-> orden_final_bultos_bco, filas |-> Filas(parse)])>>

\* get_inv_atm, get_inv_bco of comsol.py: "if df is None or df.empty: return None"
salida_inventario(parse) ==
    IF Filas(parse) = 0 THEN <<>> ELSE <<[columns |-> cols_inv, filas |-> Filas(parse)]>>

EsInventario(tipo_doc) == tipo_doc \in {"INV_ATM", "INV_BCO"}

\* the call of the parser: [excepcion, res], res the table written (<<>> for None)
llama_parser(d) ==
    IF d.parse = "error" THEN [excepcion |-> TRUE, res |-> <<>>]
    ELSE [excepcion |-> FALSE,
          res |-> IF EsInventario(d.tipo) THEN salida_inventario(d.parse)
                  ELSE salida_ledger(d.tipo, d.parse)]

\* a dispatcher with no try around the call of the parser
_dispatch_and_process_sin_try(d) ==
    IF d.tipo = "" THEN [excepcion |-> FALSE, parser_name |-> "", tabla |-> <<>>, nregs |-> 0]
    ELSE LET r == llama_parser(d)
         IN  [excepcion |-> r.excepcion, parser_name |-> d.tipo, tabla |-> r.res,
              nregs |-> IF r.res = <<>> THEN 0 ELSE r.res[1].filas]

\* "except Exception as e: ...; res = None": nothing is raised to the caller
_dispatch_and_process(d) ==
    IF d.tipo = "" THEN [excepcion |-> FALSE, parser_name |-> "", tabla |-> <<>>, nregs |-> 0]
    ELSE LET r == llama_parser(d)
             res == IF r.excepcion THEN <<>> ELSE r.res
         IN  [excepcion |-> FALSE, parser_name |-> d.tipo, tabla |-> res,
              nregs |-> IF res = <<>> THEN 0 ELSE res[1].filas]

MaxPendientes == 3

TiposDoc == {"EC_ATM", "EC_EFECT_BCO", "EC_BULTOS_ATM", "EC_BULTOS_BCO", "INV_ATM", "INV_BCO"}

Documentos ==
    {[tipo |-> "", parse |-> "registros"]}
        \cup [tipo : TiposDoc, parse : {"registros", "vacio", "error"}]

InitMain ==
    /\ pendientes \in Grillas(Documentos, MaxPendientes)
    /\ i_doc = 0
    /\ resultados = <<>>
    /\ pc_main = "bucle"
    /\ tipo = ""
    /\ SinParser
    /\ SinDf
    /\ SinResto

\* one iteration of "for p, ag in pendientes: _dispatch_and_process(...)"; an
\* exception raised by the call leaves the loop and main
Despacha ==
    /\ pc_main = "bucle"
    /\ i_doc < Len(pendientes)
    /\ LET r == _dispatch_and_process(pendientes[i_doc + 1])
       IN  IF r.excepcion
           THEN pc_main' = "excepcion" /\ UNCHANGED <<i_doc, resultados>>
           ELSE /\ pc_main' = pc_main
                /\ i_doc' = i_doc + 1
                /\ resultados' = Append(resultados, r)
    /\ UNCHANGED <<varsParser, varsDf, varsResto, pendientes>>

\* the loop is over: logger.info("[FIN] Consolidado PROSEGUR")
FinMain ==
    /\ pc_main = "bucle"
    /\ i_doc = Len(pendientes)
    /\ pc_main' = "fin"
    /\ UNCHANGED <<varsParser, varsDf, varsResto, pendientes, i_doc, resultados>>

NextMain == Despacha \/ FinMain

SpecMain == InitMain /\ [][NextMain]_vars

\* C12: no exception leaves the processing of a document whose parse raises, and
\* the loop goes on: every pending document gets dispatched.
C12_ErrorContenido ==
    /\ pc_main # "excepcion"
    /\ Len(resultados) = i_doc
    /\ pc_main = "fin" => i_doc = Len(pendientes)
    /\ \A i \in 1..i_doc :
           pendientes[i].parse = "error" => resultados[i].tabla = <<>> /\ resultados[i].nregs = 0

\* the parse of the first document raised and the second one was processed and
\* gave its records
C12_Testigo ==
    /\ i_doc >= 2
    /\ pendientes[1].tipo # ""
    /\ pendientes[1].parse = "error"
    /\ resultados[2].nregs = N_REGISTROS

\* the fixed columns of the output table of a document type
ColumnasDeTipo(tipo_doc) ==
    IF tipo_doc = "EC_ATM" THEN orden_final_ec
    ELSE IF tipo_doc = "EC_EFECT_BCO" THEN orden_final_ec_banco
    ELSE IF tipo_doc = "EC_BULTOS_ATM" THEN orden_final_bultos
    ELSE IF tipo_doc = "EC_BULTOS_BCO" THEN orden_final_bultos_bco
    ELSE cols_inv

\* C13: a document that gives zero records still gets a table, with zero rows and
\* the fixed columns of its type, inventory types as well as ledger types.
C13_TablaVacia ==
    \A i \in 1..i_doc :
        (pendientes[i].tipo # "" /\ pendientes[i].parse = "vacio")
            => resultados[i].tabla =
                   <<[columns |-> ColumnasDeTipo(pendientes[i].tipo), filas |-> 0]>>

\* an inventory document with zero records was processed and no table came out
C13_Testigo ==
    \E i \in 1..i_doc :
        /\ EsInventario(pendientes[i].tipo)
        /\ pendientes[i].parse = "vacio"
        /\ resultados[i].tabla = <<>>

\* the ledger half of C13: a ledger document with zero records gets its table
C13_TablaVaciaLedger ==
    \A i \in 1..i_doc :
        (pendientes[i].tipo # "" /\ ~EsInventario(pendientes[i].tipo)
             /\ pendientes[i].parse = "vacio")
            => resultados[i].tabla =
                   <<[columns |-> ColumnasDeTipo(pendientes[i].tipo), filas |-> 0]>>

(***************************************************************************)
(* Detail rows of the ATM ledgers (comsol.py 491-524, 777-828): the same   *)
(* row loops, read on sheets made of a section marker, a motive line and   *)
(* detail rows of every width.                                             *)
(***************************************************************************)
MaxFilasDetalle == 3

InitDetalle ==
    /\ tipo \in {"EC_ATM", "EC_BULTOS_ATM"}
    /\ descartar_usd_cero \in (IF tipo = "EC_BULTOS_ATM" THEN BOOLEAN ELSE {TRUE})
    /\ doc \in {<<[nombre |-> N_HOJA1, filas |-> g]>> :
                    g \in Grillas(FilasDetalle, MaxFilasDetalle)}
    /\ Antes
    /\ SinBanco
    /\ SinInventario
    /\ SinOtros

SpecDetalle == InitDetalle /\ [][Next]_vars

\* the row the loop reads next is dispatched to the detail branch
SigueDetalle ==
    /\ pc = "filas"
    /\ i_fila < Len(doc[hoja].filas)
    /\ ing_egr # ""
    /\ motivo_actual # <<>>
    /\ Clase(i_fila + 1) = "fecha"

\* the non-empty cells to the right of the date cell of row n
CeldasTrasFecha(n) ==
    LET L == Fila(n)
    IN  SelectSeq(SubSeq(L.strip_cells, L.date_idx + 1, Len(L.strip_cells)),
                  LAMBDA c : c # <<>>)

\* the rows of the sheets whose fourth amount cell holds a dollar amount other
\* than zero
FilasConDolares == {F_DETALLE_USD}

\* C15: every detail row the bultos ATM parser dispatches appends one PYG record,
\* and one USD record after it unless suppression is enabled and the dollar amount
\* of the row is zero-like; with suppression disabled the USD record is always
\* appended.
C15_RegistroUSD ==
    tipo = "EC_BULTOS_ATM" =>
        \A n \in 1..i_fila :
            Emitidos(n) # {} =>
                LET pyg == {k \in Emitidos(n) : registros[k].MONEDA = "PYG"}
                    usd == {k \in Emitidos(n) : registros[k].MONEDA = "USD"}
                    omitido == descartar_usd_cero
                                   /\ doc[hoja].filas[n] \notin FilasConDolares
                IN  /\ Emitidos(n) = pyg \cup usd
                    /\ Cardinality(pyg) = 1
                    /\ Cardinality(usd) = (IF omitido THEN 0 ELSE 1)
                    /\ \A k \in usd : k - 1 \in pyg

\* with suppression enabled, the row with the dollar amount 0,00 has been
\* dispatched as a detail row
C15_Testigo ==
    /\ tipo = "EC_BULTOS_ATM"
    /\ descartar_usd_cero
    /\ \E n \in 1..i_fila :
           /\ doc[hoja].filas[n] = F_DETALLE_CEROS
           /\ Emitidos(n) # {}

\* the same for the rows whose dollar amount is the text 0 or is missing
C15_RegistroUSDCeroSimple ==
    tipo = "EC_BULTOS_ATM" =>
        \A n \in 1..i_fila :
            (Emitidos(n) # {} /\ doc[hoja].filas[n] # F_DETALLE_CEROS) =>
                LET usd == {k \in Emitidos(n) : registros[k].MONEDA = "USD"}
                    omitido == descartar_usd_cero
                                   /\ doc[hoja].filas[n] \notin FilasConDolares
                IN  Cardinality(usd) = (IF omitido THEN 0 ELSE 1)

\* C16: a detail row of get_ec_atm with fewer cells than the record has fields
\* still appends one record; the missing amounts are "0" and the missing text
\* fields are empty.
C16_FilaCorta ==
    [][(tipo = "EC_ATM" /\ SigueDetalle) =>
          /\ Len(registros') = Len(registros) + 1
          /\ LET r == registros'[Len(registros')]
                 m == Len(CeldasTrasFecha(i_fila + 1))
             IN  /\ (m < 1 => r.SUCURSAL = <<>>)
                 /\ (m < 2 => r.RECIBO = <<>>)
                 /\ (m < 3 => r.BULTOS = <<>>)
                 /\ (m < 4 => r.GUARANIES = TXT_CERO)
                 /\ (m < 5 => r.DOLARES = TXT_CERO)]_vars

\* the row with the date cell alone and the row without the dollar cell both
\* appended a record
C16_Testigo ==
    /\ tipo = "EC_ATM"
    /\ \E n \in 1..i_fila :
           /\ doc[hoja].filas[n] \in {F_CORTA_1, F_CORTA_5}
           /\ Cardinality(Emitidos(n)) = 1
           /\ \A k \in Emitidos(n) : registros[k].DOLARES = TXT_CERO

\* the record the row of section 8.1 gives, but for its receipt number
RegistroEjemplo(r) ==
    /\ r.FECHA_OPER = C_FECHA
    /\ r.SUCURSAL = C_SUC
    /\ r.BULTOS = C_BULTOS
    /\ r.GUARANIES = C_GUA
    /\ r.DOLARES = TXT_CERO
    /\ r.ING_EGR = "IN"
    /\ r.MOTIVO_MOVIMIENTO = C_DEPOSITO

\* the row of section 8.1 is read next, in section IN under the motive DEPOSITO
SigueEjemplo ==
    /\ tipo = "EC_ATM"
    /\ pc = "filas"
    /\ i_fila < Len(doc[hoja].filas)
    /\ doc[hoja].filas[i_fila + 1] = F_DETALLE
    /\ ing_egr = "IN"
    /\ motivo_actual = C_DEPOSITO

\* C18 as stated: the row ["", "15/03/2024", "Ciudad del Este", "000123456", "3",
\* "1.500.000", "0"] read in section IN under the motive DEPOSITO appends exactly
\* one record, with RECIBO 123456.
C18_EjemploOriginal ==
    [][SigueEjemplo =>
          /\ Len(registros') = Len(registros) + 1
          /\ RegistroEjemplo(registros'[Len(registros')])
          /\ registros'[Len(registros')].RECIBO = <<"1","2","3","4","5","6">>]_vars

\* C18: the row ["", "15/03/2024", "Ciudad del Este", "000123456", "3",
\* "1.500.000", "0"] read in section IN under the motive DEPOSITO appends exactly
\* one record, with FECHA 15/03/2024, SUCURSAL Ciudad del Este, RECIBO 000123456
\* (the digits of the cell, leading zeros kept), BULTOS 3, GUARANIES 1.500.000,
\* DOLARES 0, ING_EGR IN and MOTIVO_MOVIMIENTO DEPOSITO.
C18_Ejemplo ==
    [][SigueEjemplo =>
          /\ Len(registros') = Len(registros) + 1
          /\ RegistroEjemplo(registros'[Len(registros')])
          /\ registros'[Len(registros')].RECIBO = C_RECIBO]_vars

C18_Testigo ==
    /\ tipo = "EC_ATM"
    /\ \E n \in 1..i_fila :
           /\ doc[hoja].filas[n] = F_DETALLE
           /\ \E k \in Emitidos(n) :
                  registros[k].ING_EGR = "IN"
                      /\ registros[k].MOTIVO_MOVIMIENTO = C_DEPOSITO

(***************************************************************************)
(* _extraer_saldos_desde_fila (comsol.py 313-330) on its own: the row is   *)
(* the input, one step is the call.                                        *)
(***************************************************************************)
MaxCeldas == 5

\* cells as the callers hand them in, already stripped
CeldasSaldo == {C_VACIA, C_SALDO, C_SALDO_MAYUS, C_SALDO_NUM, C_SALDO_1, C_SALDO_2, C_SUC}

InitSaldos ==
    /\ fila_saldo \in Grillas(CeldasSaldo, MaxCeldas)
    /\ valores = <<>>
    /\ pc_saldos = "entrada"
    /\ tipo = ""
    /\ SinParser
    /\ SinMain
    /\ SinDf
    /\ SinBcoMas
    /\ SinFn

ExtraeSaldos ==
    /\ pc_saldos = "entrada"
    /\ valores' = _extraer_saldos_desde_fila(fila_saldo)
    /\ pc_saldos' = "salida"
    /\ UNCHANGED <<varsParser, varsMain, varsDf, varsBcoMas, varsFn, fila_saldo>>

NextSaldos == ExtraeSaldos

SpecSaldos == InitSaldos /\ [][NextSaldos]_vars

\* the cells of CeldasSaldo that hold the label, and those that hold a digit
CeldasEtiqueta == {C_SALDO, C_SALDO_MAYUS, C_SALDO_NUM}
CeldasConDigito == {C_SALDO_NUM, C_SALDO_1, C_SALDO_2}

ConEtiqueta == {i \in 1..Len(fila_saldo) : fila_saldo[i] \in CeldasEtiqueta}

\* the row of the scenario of section 8
F_SALDO_EJEMPLO == <<C_SALDO_MAYUS, C_VACIA, C_SALDO_1, C_VACIA, C_SALDO_2>>

\* C19: for a row with a label cell, the list returned holds, in row order, exactly
\* the cells with a digit that stand to the right of the first label cell, up to
\* the end of the row; ["SALDO ANTERIOR", "", "1.200,50", "", "3.400.000"] gives
\* ["1.200,50", "3.400.000"].
C19_ValoresTrasEtiqueta ==
    (pc_saldos = "salida" /\ ConEtiqueta # {}) =>
        LET D == {j \in (Min(ConEtiqueta) + 1)..Len(fila_saldo) :
                      fila_saldo[j] \in CeldasConDigito}
        IN  /\ Len(valores) = Cardinality(D)
            /\ \A j \in D : valores[Cardinality({x \in D : x <= j})] = fila_saldo[j]
            /\ fila_saldo = F_SALDO_EJEMPLO => valores = <<C_SALDO_1, C_SALDO_2>>

\* a value left of the first label cell is left out, a second label cell that holds
\* a digit is returned
C19_Testigo ==
    /\ pc_saldos = "salida"
    /\ fila_saldo = <<C_SALDO_1, C_SALDO, C_SALDO_NUM, C_SUC, C_SALDO_2>>
    /\ valores = <<C_SALDO_NUM, C_SALDO_2>>

\* C20: for a row in which no cell holds the label the list returned is empty,
\* whatever cells with digits the row holds.
C20_SinEtiqueta ==
    (pc_saldos = "salida" /\ ConEtiqueta = {}) => valores = <<>>

C20_Testigo ==
    /\ pc_saldos = "salida"
    /\ ConEtiqueta = {}
    /\ \E i, j \in 1..Len(fila_saldo) :
           i # j /\ fila_saldo[i] = C_SALDO_1 /\ fila_saldo[j] = C_SALDO_2

(***************************************************************************)
(* get_ec_banco of prosegur_unificado_v4_2.py (281-326): the bank          *)
(* statement parser that captures the motive line and takes the receipt    *)
(* from the whitespace-separated tokens of the line.                       *)
(***************************************************************************)
TXT_BANCO == <<"B","A","N","C","O">>
TXT_ATM == <<"A","T","M">>
TXT_BULTOS_DE_BANCO == <<"B","U","L","T","O","S"," ","D","E"," ","B","A","N","C","O">>
TXT_BULTOS_DE_ATM == <<"B","U","L","T","O","S"," ","D","E"," ","A","T","M">>
CL_BCO == <<"B","C","O">>
CL_BULTO_BCO == <<"B","U","L","T","O"," ","B","C","O">>
CL_BULTO_ATM == <<"B","U","L","T","O"," ","A","T","M">>
HOJA_GUARANIES_V4 ==
    {<<"P","Y","G">>, <<"G","U","A","R","A","N","I">>, <<"G","U","A","R","A","N","Í">>}
RX_MONEDA_V4 ==
    <<<<"G","U","A","R","A","N","I","E","S">>, <<"G","U","A","R","A","N","Í","E","S">>,
     <<"D","Ó","L","A","R","E","S">>, <<"D","O","L","A","R","E","S">>,
     <<"E","U","R","O","S">>, <<"E","U","R","O">>, <<"R","E","A","L","E","S">>,
     <<"R","E","A","L","E">>, <<"P","E","S","O","S">>, <<"P","E","S","O">>, <<"P","Y","G">>,
     <<"U","S","D">>, <<"E","U","R">>, <<"B","R","L">>, <<"A","R","S">>>>

\* _resolve_agencia('', name, path): the agency told from where the file lies
agencia_fallback == <<"A","S","U">>

\* _guess_currency_from_sheet_name of prosegur_unificado_v4_2.py (223-230)
v4_guess_currency_from_sheet_name(sheet_name) ==
    LET n == upper(_strip_accents(sheet_name))
    IN  IF AlgunaEn(HOJA_DOLARES, n) THEN MON_DOLARES
        ELSE IF AlgunaEn(HOJA_EUROS, n) THEN MON_EUROS
        ELSE IF AlgunaEn(HOJA_REALES, n) THEN MON_REALES
        ELSE IF AlgunaEn(HOJA_PESOS, n) THEN MON_PESOS
        ELSE IF AlgunaEn(HOJA_GUARANIES_V4, n) THEN MON_GUARANIES
        ELSE <<>>

\* linea.split(): the runs of characters between white space
RECURSIVE split(_)
split(linea) ==
    LET t == lstrip(linea)
    IN  IF t = <<>> THEN <<>>
        ELSE LET blancos == {i \in 1..Len(t) : isspace(t[i])}
                 fin == IF blancos = {} THEN Len(t) ELSE Min(blancos) - 1
             IN  <<SubSeq(t, 1, fin)>> \o split(SubSeq(t, fin + 1, Len(t)))

\* re.search(r'ESTADO DE CUENTA DE\s+(.*?)\s+AL:', linea, re.IGNORECASE), group(1)
BuscaTipo(linea) ==
    LET u == upper(linea)
        n == Len(TXT_ESTADO)
        \* the places where \s+AL: matches
        cierres == {p \in 1..Len(linea) :
                        /\ isspace(linea[p])
                        /\ LET q == SaltaEspacios(linea, p)
                           IN  SubSeq(u, q, q + Len(TXT_AL) - 1) = TXT_AL}
        cand == {i \in Apariciones(u, TXT_ESTADO) :
                     /\ i + n <= Len(linea) /\ isspace(linea[i + n])
                     /\ \E p \in cierres : p > i + n}
    IN  IF cand = {} THEN <<>>
        ELSE LET i == Min(cand)
                 b == SaltaEspacios(linea, i + n)
                 tras == {p \in cierres : p >= b}
             IN  IF tras = {} THEN <<<<>>>>
                 ELSE <<SubSeq(linea, b, Min(tras) - 1)>>

\* mapa_clasif.get(texto_norm, texto.strip())
mapa_clasif(texto) ==
    LET texto_norm == upper(_strip_accents(strip(texto)))
    IN  IF texto_norm = TXT_BANCO THEN CL_BCO
        ELSE IF texto_norm = TXT_ATM THEN TXT_ATM
        ELSE IF texto_norm = TXT_BULTOS_DE_BANCO THEN CL_BULTO_BCO
        ELSE IF texto_norm = TXT_BULTOS_DE_ATM THEN CL_BULTO_ATM
        ELSE strip(texto)

\* re.fullmatch(r'\d{6,}', p)
EsRecibo(p) == Len(p) >= 6 /\ \A i \in 1..Len(p) : isdigit(p[i])

\* the receipt search that takes any token with a digit
v4_idx_rec_cualquiera(parts) ==
    LET c == {i \in 2..Len(parts) : TieneDigito(parts[i])}
    IN  IF c = {} THEN None ELSE Min(c)

\* next((i for i, p in enumerate(parts[1:], 1) if re.fullmatch(r'\d{6,}', p)), None)
v4_idx_rec(parts) ==
    LET c == {i \in 2..Len(parts) : EsRecibo(parts[i])}
    IN  IF c = {} THEN None ELSE Min(c)

C_REC_5 == <<"1","2","3","4","5">>
C_REC_LETRAS == <<"A","B","1","2","3","4","5","6">>
C_IMPORTE == <<"1","5","0","0","0","0","0">>
C_IMPORTE_CORTO == <<"1","5","0","0">>
C_IMPORTE_COMA == <<"2","5","0",",","5","0">>

\* detail rows without a receipt, and one whose amount has the shape of a receipt
F_DET_RECIBO_CORTO == <<C_FECHA, C_SUC, C_REC_5, C_BULTOS>>
F_DET_RECIBO_LETRAS == <<C_FECHA, C_SUC, C_REC_LETRAS, C_BULTOS, C_GUA>>
F_DET_IMPORTE_LARGO == <<C_FECHA, C_SUC, C_SN, C_BULTOS, C_IMPORTE>>

FilasV4Bco ==
    {F_INGRESOS, F_MOTIVO, F_DETALLE_BCO, F_DET_RECIBO_CORTO, F_DET_RECIBO_LETRAS,
     F_DET_IMPORTE_LARGO, F_ESTADO, F_ESTADO_BCO, F_INFORME, F_TOTAL}

\* what the head of the row loop computes from a row (prosegur_unificado_v4_2.py 294-296)
\* and the searches the branches run on the line
LeerFilaV4(row) ==
    LET cells == [i \in 1..Len(row) |-> strip(row[i])]
        linea == join(SelectSeq(cells, LAMBDA c : c # <<>>))
    IN  [linea |-> linea,
         linea_up |-> upper(_strip_accents(linea)),
         m |-> BuscaSucursal(linea),
         m_tipo |-> BuscaTipo(linea),
         m_f |-> BuscaFechaAL(linea),
         totales |-> rx_totales(linea),
         m_moneda |-> rx_moneda(linea, RX_MONEDA_V4, TRUE),
         m_date |-> rx_fecha_linea(linea),
         parts |-> split(linea),
         idx_rec |-> v4_idx_rec(split(linea))]

LecturaV4 == [row \in FilasV4Bco |-> LeerFilaV4(row)]

EstadoV4 ==
    [agencia |-> agencia, fecha_archivo |-> fecha_archivo, clasificacion |-> clasificacion,
     ing_egr |-> ing_egr, motivo_actual |-> motivo_actual, moneda_actual |-> moneda_actual,
     registros |-> registros, origen |-> origen, pc |-> pc]

\* the assignments at the head of "for nombre_hoja, df in hojas.items()" (291-292)
v4_InicioHoja(e, nombre_hoja) ==
    [e EXCEPT !.agencia = <<>>, !.fecha_archivo = <<>>, !.clasificacion = <<>>,
              !.ing_egr = "", !.motivo_actual = <<>>,
              !.moneda_actual = IF v4_guess_currency_from_sheet_name(nombre_hoja) # <<>>
                                THEN v4_guess_currency_from_sheet_name(nombre_hoja)
                                ELSE MON_GUARANIES,
              !.pc = "filas"]

\* the record of a detail line; its key 'MOTIVO MOVIMIENTO' is written with an
\* underscore here
v4_RegistroBanco(e, L, nombre_hoja) ==
    [HOJA_ORIGEN |-> nombre_hoja,
     AGENCIA |-> IF e.agencia # <<>> THEN e.agencia ELSE agencia_fallback,
     FECHA_ARCHIVO |-> e.fecha_archivo, ING_EGR |-> e.ing_egr,
     CLASIFICACION |-> e.clasificacion, MOTIVO_MOVIMIENTO |-> e.motivo_actual,
     FECHA_OPER |-> L.parts[1],
     SUCURSAL |-> strip(join(SubSeq(L.parts, 2, L.idx_rec - 1))),
     RECIBO |-> L.parts[L.idx_rec],
     BULTOS |-> ParteO(L.parts, L.idx_rec + 1),
     MONEDA |-> e.moneda_actual,
     MONTO |-> ParteO(L.parts, L.idx_rec + 2)]

\* if ing_egr and motivo_actual and m_date: ... (315-326)
v4_DetalleBanco(e, L, donde, nombre_hoja) ==
    IF L.parts = <<>> \/ L.idx_rec = None THEN e
    ELSE [e EXCEPT !.registros = Append(@, v4_RegistroBanco(e, L, nombre_hoja)),
                   !.origen = Append(@, donde)]

\* the row loop from "if linea_up == 'INGRESOS'" on (307-326)
v4_DesdeSeccion(e, L, donde, nombre_hoja) ==
    IF L.linea_up = TXT_INGRESOS THEN AbreSeccion(e, "IN")
    ELSE IF L.linea_up = TXT_EGRESOS THEN AbreSeccion(e, "OUT")
    ELSE IF Contiene(L.linea_up, TXT_INFORME) THEN [e EXCEPT !.pc = "fin"]
    ELSE IF L.totales THEN e
    ELSE LET e1 == IF L.m_moneda # <<>> THEN [e EXCEPT !.moneda_actual = L.m_moneda[1]]
                   ELSE e
         IN  IF e1.ing_egr # "" /\ L.m_date = <<>>
             THEN [e1 EXCEPT !.motivo_actual = strip(L.linea)]
             ELSE IF e1.ing_egr # "" /\ e1.motivo_actual # <<>> /\ L.m_date # <<>>
             THEN v4_DetalleBanco(e1, L, donde, nombre_hoja)
             ELSE e1

\* the branch of 'ESTADO DE CUENTA DE' (300-306): the row goes on down the loop body
\* when the line has no "AL: <date>"
v4_EstadoDeCuenta(e, L, donde, nombre_hoja) ==
    LET e1 == IF L.m_tipo # <<>> THEN [e EXCEPT !.clasificacion = mapa_clasif(L.m_tipo[1])]
              ELSE e
    IN  IF L.m_f # <<>> THEN [e1 EXCEPT !.fecha_archivo = L.m_f[1]]
        ELSE v4_DesdeSeccion(e1, L, donde, nombre_hoja)

v4_get_ec_banco(e, row, donde, nombre_hoja) ==
    LET L == LecturaV4[row]
    IN  IF L.linea = <<>> THEN e
        ELSE IF Contiene(L.linea_up, TXT_PROSEGUR) /\ L.m # <<>>
             THEN [e EXCEPT !.agencia = L.m[1]]
        ELSE IF Contiene(L.linea_up, TXT_ESTADO)
             THEN v4_EstadoDeCuenta(e, L, donde, nombre_hoja)
        ELSE v4_DesdeSeccion(e, L, donde, nombre_hoja)

(***************************************************************************)
(* parse_ec_efect_bco_xlsx of version_final_mod_2.py (428-498) and the     *)
(* helpers it calls.  The sheet is read without dtype=str: an empty cell   *)
(* is NaN, written <<>> here; every other cell here is a text.  A number   *)
(* is written as the decimal numeral that names it: its sign, its integer  *)
(* digits without leading zeros and its fraction digits without trailing   *)
(* zeros.                                                                  *)
(***************************************************************************)
NAN == <<"n","a","n">>
TXT_DOCUMENTA == <<" ","(","D","O","C","U","M","E","N","T","A","/","I","T","A","U",")">>
N_ARCHIVO == <<"E","C","_","E","F","E","C","T","_","B","C","O",".","x","l","s","x">>
TXT_CDE == <<"C","D","E">>

\* pd.isna(val), pd.notna(val)
isna(val) == val = <<>>

\* str(val)
str(val) == IF isna(val) THEN NAN ELSE val

\* DATE_RE.match(s): ^\s*(\d{1,2}/\d{1,2}/\d{4})\s*$
DATE_RE(s) ==
    LET j == SaltaEspacios(s, 1)
        n == FechaEn(s, j)
    IN  n > 0 /\ SaltaEspacios(s, j + n) = Len(s) + 1

\* to_ddmmyyyy(val), <<>> for None.  The strptime formats that follow DATE_RE take
\* texts with hyphens or with a two-digit year; on every other text they raise
\* ValueError and the function returns None.
to_ddmmyyyy(val) ==
    IF isna(val) THEN <<>>
    ELSE IF DATE_RE(strip(val)) THEN <<strip(val)>>
    ELSE <<>>

\* has_string_date(row_vals)
has_string_date(row_vals) ==
    \E i \in 1..Len(row_vals) : ~isna(row_vals[i]) /\ DATE_RE(strip(row_vals[i]))

\* clean_digits(val)
clean_digits(val) == IF isna(val) THEN <<>> ELSE SelectSeq(str(val), isdigit)

Quita(s, c) == SelectSeq(s, LAMBDA x : x # c)
Cambia(s, de, a) == [i \in 1..Len(s) |-> IF s[i] = de THEN a ELSE s[i]]
rfind(s, c) == Max({0} \cup {i \in 1..Len(s) : s[i] = c})

RECURSIVE SinCerosDelante(_)
SinCerosDelante(d) == IF d # <<>> /\ Head(d) = "0" THEN SinCerosDelante(Tail(d)) ELSE d

RECURSIVE SinCerosDetras(_)
SinCerosDetras(d) ==
    IF d # <<>> /\ d[Len(d)] = "0" THEN SinCerosDetras(SubSeq(d, 1, Len(d) - 1)) ELSE d

\* float(s), <<>> for ValueError: an optional sign, digits, at most one point and
\* at least one digit (the texts that reach it hold no letters)
float(s) ==
    LET signo == s # <<>> /\ s[1] \in {"-", "+"}
        t == IF signo THEN Tail(s) ELSE s
        puntos == {i \in 1..Len(t) : t[i] = "."}
        ent == IF puntos = {} THEN t ELSE SubSeq(t, 1, Min(puntos) - 1)
        frac == IF puntos = {} THEN <<>> ELSE SubSeq(t, Min(puntos) + 1, Len(t))
    IN  IF /\ Cardinality(puntos) <= 1
           /\ \A i \in 1..Len(ent) : isdigit(ent[i])
           /\ \A i \in 1..Len(frac) : isdigit(frac[i])
           /\ Len(ent) + Len(frac) >= 1
        THEN <<[neg |-> signo /\ s[1] = "-", ent |-> SinCerosDelante(ent),
                frac |-> SinCerosDetras(frac)]>>
        ELSE <<>>

\* -x if neg else x, <<>> when float(s) raised ValueError
ConSigno(x, neg) ==
    IF x = <<>> THEN <<>> ELSE IF neg THEN <<[x[1] EXCEPT !.neg = ~@]>> ELSE x

\* the thousands separators leave s and the decimal comma becomes a point (194-199)
Separadores(s) ==
    LET coma == \E i \in 1..Len(s) : s[i] = ","
        punto == \E i \in 1..Len(s) : s[i] = "."
    IN  IF coma /\ punto
        THEN Cambia(IF rfind(s, ".") < rfind(s, ",") THEN Quita(s, ".") ELSE Quita(s, ","),
                    ",", ".")
        ELSE IF coma
        THEN IF Len(s) - rfind(s, ",") <= 2 THEN Cambia(s, ",", ".") ELSE Quita(s, ",")
        ELSE s

\* parse_numeric from "if not s: return None" on, s the sanitized text (190-203)
parse_numeric_str(s) ==
    IF s = <<>> THEN <<>>
    ELSE LET neg == s[1] = "(" /\ s[Len(s)] = ")"
         IN  ConSigno(float(Separadores(Quita(IF neg THEN strip(SubSeq(s, 2, Len(s) - 1))
                                                     ELSE s, " "))),
                      neg)

\* parse_numeric(val) for a text or NaN, <<>> for None
parse_numeric(val) ==
    IF isna(val) THEN <<>>
    ELSE parse_numeric_str(strip(SelectSeq(val, LAMBDA c : isdigit(c)
                                   \/ c \in {",", ".", "-", "(", ")", " "})))

\* comparisons of numbers
EsCero(x) == x.ent = <<>> /\ x.frac = <<>>
Cifra(c) == CHOOSE k \in 0..9 : <<"0","1","2","3","4","5","6","7","8","9">>[k + 1] = c
Relleno(d, n) == d \o [i \in 1..(n - Len(d)) |-> "0"]
MenorCifras(a, b) ==
    \E i \in 1..Len(a) : Cifra(a[i]) < Cifra(b[i]) /\ \A j \in 1..(i - 1) : a[j] = b[j]
MenorMagnitud(x, y) ==
    LET n == IF Len(x.frac) > Len(y.frac) THEN Len(x.frac) ELSE Len(y.frac)
    IN  \/ Len(x.ent) < Len(y.ent)
        \/ /\ Len(x.ent) = Len(y.ent)
           /\ MenorCifras(x.ent \o Relleno(x.frac, n), y.ent \o Relleno(y.frac, n))
Menor(x, y) ==
    LET nx == x.neg /\ ~EsCero(x)
        ny == y.neg /\ ~EsCero(y)
    IN  IF nx /\ ~ny THEN TRUE
        ELSE IF ~nx /\ ny THEN FALSE
        ELSE IF nx THEN MenorMagnitud(y, x)
        ELSE MenorMagnitud(x, y)

\* max(importe_candidates): the first of the greatest
max(nums) ==
    nums[Min({i \in 1..Len(nums) : \A j \in 1..Len(nums) : ~Menor(nums[i], nums[j])})]

\* b == int(b) and 0 <= b < 1000
EsBultos(b) == b.frac = <<>> /\ (~b.neg \/ EsCero(b)) /\ Len(b.ent) <= 3

\* int(b), as its digits
int(b) == IF b.ent = <<>> THEN <<"0">> ELSE b.ent

\* detail rows of the bank statement of version_final_mod_2.py
F_VFM_DETALLE == <<C_FECHA, C_SUC, C_RECIBO, C_BULTOS, C_IMPORTE>>
F_VFM_SIN_RECIBO == <<C_FECHA, C_SUC, C_SN, C_BULTOS, C_IMPORTE_CORTO>>
F_VFM_IMPORTE_RECIBO == <<C_FECHA, C_SUC, C_SN, C_IMPORTE, C_IMPORTE_COMA>>
F_VFM_COMA == <<C_FECHA, C_VACIA, C_RECIBO, C_SALDO_1>>

FilasVfm ==
    {F_INGRESOS, F_EGRESOS, F_MOTIVO, F_TOTAL, F_INFORME, F_VFM_DETALLE, F_VFM_SIN_RECIBO,
     F_VFM_IMPORTE_RECIBO, F_VFM_COMA, F_DETALLE_BCO}

\* x for x in nums if x is not None, each x as the number it holds
Candidatos(nums) ==
    LET dados == SelectSeq(nums, LAMBDA x : x # <<>>)
    IN  [i \in 1..Len(dados) |-> dados[i][1]]

\* importe_candidates = [parse_numeric(c) for c in row[idx:] if parse_numeric(c) is not None];
\* idx is the place of the next cell to read, L what the row has given so far
LeeImportes(row, idx, L) ==
    [L EXCEPT !.importe_candidates =
                  Candidatos([i \in 1..(Len(row) - idx + 1) |-> parse_numeric(row[idx + i - 1])])]

\* if b is not None and b == int(b) and 0 <= b < 1000: bultos = int(b); idx += 1
TomaBultos(row, idx, L, b) ==
    LET hay_bultos == b # <<>> /\ EsBultos(b[1])
    IN  LeeImportes(row, IF hay_bultos THEN idx + 1 ELSE idx,
                    IF hay_bultos THEN [L EXCEPT !.bultos = int(b[1])] ELSE L)

\* if idx < len(row): b = parse_numeric(row[idx]) ... (477-481)
LeeBultos(row, idx, L) ==
    TomaBultos(row, idx, L, IF idx <= Len(row) THEN parse_numeric(row[idx]) ELSE <<>>)

\* the third while loop: the first cell from idx on with five digits or more (473-475)
LeeRecibo(row, idx, L) ==
    LET recs == {i \in idx..Len(row) : Len(clean_digits(row[i])) >= 5}
    IN  LeeBultos(row, IF recs = {} THEN Len(row) + 1 ELSE Min(recs) + 1,
                  IF recs = {} THEN L ELSE [L EXCEPT !.recibo = clean_digits(row[Min(recs)])])

\* the second while loop: the first cell from idx on whose text is not blank (468-470)
LeeSucursal(row, idx, L) ==
    LET sucs == {i \in idx..Len(row) : strip(str(row[i])) # <<>>}
    IN  LeeRecibo(row, IF sucs = {} THEN Len(row) + 1 ELSE Min(sucs) + 1,
                  IF sucs = {} THEN L ELSE [L EXCEPT !.sucursal = strip(str(row[Min(sucs)]))])

\* the first while loop: the first cell that to_ddmmyyyy reads as a date (463-465)
LeeFecha(row, L) ==
    LET fechas == {i \in 1..Len(row) : to_ddmmyyyy(row[i]) # <<>>}
    IN  LeeSucursal(row, IF fechas = {} THEN Len(row) + 1 ELSE Min(fechas) + 1,
                    IF fechas = {} THEN L ELSE [L EXCEPT !.fecha = to_ddmmyyyy(row[Min(fechas)])])

\* txt and nonempty of the row (449, 457)
TextoFila(nonempty) ==
    [txt |-> upper(join([i \in 1..Len(nonempty) |-> str(nonempty[i])])),
     nonempty |-> nonempty]

\* what one iteration of the row loop computes from the row (448-484)
LeerFilaVfm(row) ==
    LeeFecha(row,
             TextoFila(SelectSeq(row, LAMBDA x : ~isna(x) /\ strip(str(x)) # <<>>))
                 @@ [has_string_date |-> has_string_date(row), fecha |-> <<>>,
                     sucursal |-> <<>>, recibo |-> <<>>, bultos |-> <<>>,
                     importe_candidates |-> <<>>])

LecturaVfm == [row \in FilasVfm |-> LeerFilaVfm(row)]

EstadoVfm ==
    [current_section |-> current_section, current_motivo |-> current_motivo,
     moneda |-> moneda_actual, agencia |-> agencia, fecha_archivo |-> fecha_archivo,
     extra_cliente |-> extra_cliente, registros |-> registros, origen |-> origen, pc |-> pc]

\* registros.append({...}) (486-492); BULTOS and FECHA_ARCHIVO are <<>> for None
RegistroVfm(e, L) ==
    [FECHA_OPERACION |-> L.fecha[1], SUCURSAL |-> L.sucursal, RECIBO |-> L.recibo,
     BULTOS |-> L.bultos, IMPORTE |-> max(L.importe_candidates), MONEDA |-> e.moneda,
     ING_EGR |-> IF e.current_section = TXT_INGRESOS THEN "IN" ELSE "OUT",
     CLASIFICACION |-> "BCO", FECHA_ARCHIVO |-> e.fecha_archivo,
     MOTIVO_MOVIMIENTO |-> (IF e.current_motivo # <<>> THEN e.current_motivo
                                                       ELSE e.current_section)
                               \o e.extra_cliente,
     AGENCIA |-> e.agencia, ARCHIVO_ORIGEN |-> N_ARCHIVO]

\* the body of "for _, row_series in df_raw.iterrows()"
parse_ec_efect_bco_xlsx(e, row, donde) ==
    LET L == LecturaVfm[row]
    IN  IF Contiene(L.txt, TXT_INFORME) THEN [e EXCEPT !.pc = "fin"]
        ELSE IF Contiene(L.txt, TXT_INGRESOS) /\ ~Contiene(L.txt, TXT_EGRESOS)
             THEN [e EXCEPT !.current_section = TXT_INGRESOS, !.current_motivo = <<>>]
        ELSE IF Contiene(L.txt, TXT_EGRESOS)
             THEN [e EXCEPT !.current_section = TXT_EGRESOS, !.current_motivo = <<>>]
        ELSE IF e.current_section = <<>> THEN e
        ELSE IF SubSeq(L.txt, 1, Len(TXT_TOTAL)) = TXT_TOTAL /\ ~L.has_string_date
             THEN [e EXCEPT !.current_motivo = <<>>]
        ELSE IF Len(L.nonempty) = 1 /\ to_ddmmyyyy(L.nonempty[1]) = <<>>
             THEN [e EXCEPT !.current_motivo = strip(str(L.nonempty[1]))]
        ELSE IF L.fecha = <<>> THEN e
        ELSE IF L.sucursal = <<>> THEN e
        ELSE IF L.importe_candidates = <<>> THEN e
        ELSE [e EXCEPT !.registros = Append(@, RegistroVfm(e, L)),
                       !.origen = Append(@, donde)]

(***************************************************************************)
(* The two bank statement parsers as a state machine: the workbook is the  *)
(* input, one step is the head of the sheet loop or one iteration of the   *)
(* row loop.                                                               *)
(***************************************************************************)
MaxHojasRecibo == 1
MaxFilasRecibo == 3

HojasV4 ==
    {[nombre |-> n, filas |-> g] : n \in NombresHoja, g \in Grillas(FilasV4Bco, MaxFilasRecibo)}

HojasVfm ==
    {[nombre |-> N_HOJA1, filas |-> g] : g \in Grillas(FilasVfm, MaxFilasRecibo)}

\* what the head of the sheet loop of parse_ec_efect_bco_xlsx reads from the text of
\* the whole sheet (438-442): moneda, agencia, fecha_archivo, extra_cliente
CabecerasVfm ==
    {[moneda |-> ISO_PYG, agencia |-> <<>>, fecha_archivo |-> <<>>, extra_cliente |-> <<>>],
     [moneda |-> ISO_USD, agencia |-> TXT_CDE, fecha_archivo |-> C_FECHA,
      extra_cliente |-> TXT_DOCUMENTA]}

InitRecibo ==
    /\ tipo \in {"v4.get_ec_banco", "parse_ec_efect_bco_xlsx"}
    /\ descartar_usd_cero = TRUE
    /\ doc \in UNION {[1..k -> IF tipo = "v4.get_ec_banco" THEN HojasV4 ELSE HojasVfm] :
                          k \in 1..MaxHojasRecibo}
    /\ agencia = <<>>
    /\ fecha_archivo = <<>>
    /\ ing_egr = ""
    /\ motivo_actual = <<>>
    /\ saldo_anterior = <<>>
    /\ moneda_actual = <<>>
    /\ saldo_ant_usd = <<>>
    /\ saldo_ant_pyg = <<>>
    /\ registros = <<>>
    /\ origen = <<>>
    /\ previa = <<>>
    /\ hoja = 0
    /\ i_fila = 0
    /\ pc = "hojas"
    /\ SinInventario
    /\ SinMain
    /\ SinDf
    /\ SinResto

AsignaV4(e) ==
    /\ agencia' = e.agencia
    /\ fecha_archivo' = e.fecha_archivo
    /\ clasificacion' = e.clasificacion
    /\ ing_egr' = e.ing_egr
    /\ motivo_actual' = e.motivo_actual
    /\ moneda_actual' = e.moneda_actual
    /\ registros' = e.registros
    /\ origen' = e.origen
    /\ pc' = e.pc

\* get_ec_banco of prosegur_unificado_v4_2.py: the next iteration of the sheet loop
HojaBancoV4 ==
    /\ tipo = "v4.get_ec_banco"
    /\ OtraHoja
    /\ AsignaV4(v4_InicioHoja(EstadoV4, doc[hoja + 1].nombre))
    /\ hoja' = hoja + 1
    /\ i_fila' = 0
    /\ UNCHANGED <<varsMain, varsDf, varsSaldos, varsFn, started, current_section, current_motivo,
                   extra_cliente, tipo, descartar_usd_cero, doc, saldo_ant_usd,
                   saldo_ant_pyg, saldo_anterior, previa, varsInv>>

\* one iteration of "for _, row in df.iterrows()" of that get_ec_banco
FilaBancoV4 ==
    /\ tipo = "v4.get_ec_banco"
    /\ pc = "filas"
    /\ i_fila < Len(doc[hoja].filas)
    /\ AsignaV4(v4_get_ec_banco(EstadoV4, doc[hoja].filas[i_fila + 1], <<hoja, i_fila + 1>>,
                                doc[hoja].nombre))
    /\ i_fila' = i_fila + 1
    /\ UNCHANGED <<varsMain, varsDf, varsSaldos, varsFn, started, current_section, current_motivo,
                   extra_cliente, tipo, descartar_usd_cero, doc, hoja, saldo_ant_usd,
                   saldo_ant_pyg, saldo_anterior, previa, varsInv>>

\* parse_ec_efect_bco_xlsx: the next iteration of "for sheet_name in xl.sheet_names";
\* registros stands for the records of the sheets before followed by those of this
\* sheet, the order pd.concat gives them at the end
HojaVfm ==
    /\ tipo = "parse_ec_efect_bco_xlsx"
    /\ OtraHoja
    /\ \E c \in CabecerasVfm :
           /\ moneda_actual' = c.moneda
           /\ agencia' = c.agencia
           /\ fecha_archivo' = c.fecha_archivo
           /\ extra_cliente' = c.extra_cliente
    /\ current_section' = <<>>
    /\ current_motivo' = <<>>
    /\ pc' = "filas"
    /\ hoja' = hoja + 1
    /\ i_fila' = 0
    /\ UNCHANGED <<varsMain, varsDf, varsSaldos, varsFn, started, clasificacion, tipo, descartar_usd_cero,
                   doc, registros, origen, ing_egr, motivo_actual, saldo_ant_usd,
                   saldo_ant_pyg, saldo_anterior, previa, varsInv>>

\* one iteration of "for _, row_series in df_raw.iterrows()"
FilaVfm ==
    /\ tipo = "parse_ec_efect_bco_xlsx"
    /\ pc = "filas"
    /\ i_fila < Len(doc[hoja].filas)
    /\ LET e == parse_ec_efect_bco_xlsx(EstadoVfm, doc[hoja].filas[i_fila + 1],
                                        <<hoja, i_fila + 1>>)
       IN  /\ current_section' = e.current_section
           /\ current_motivo' = e.current_motivo
           /\ registros' = e.registros
           /\ origen' = e.origen
           /\ pc' = e.pc
    /\ i_fila' = i_fila + 1
    /\ UNCHANGED <<varsMain, varsDf, varsSaldos, varsFn, started, clasificacion, extra_cliente, tipo,
                   descartar_usd_cero, doc, hoja, agencia, fecha_archivo, ing_egr,
                   motivo_actual, moneda_actual, saldo_ant_usd, saldo_ant_pyg,
                   saldo_anterior, previa, varsInv>>

NextRecibo == HojaBancoV4 \/ FilaBancoV4 \/ HojaVfm \/ FilaVfm

SpecRecibo == InitRecibo /\ [][NextRecibo]_vars

\* the detail rows in which no token, for the one parser, and no cell, for the
\* other, has the shape of a receipt
FilasSinRecibo ==
    IF tipo = "v4.get_ec_banco" THEN {F_DET_RECIBO_CORTO, F_DET_RECIBO_LETRAS}
    ELSE {F_VFM_SIN_RECIBO}

\* C17: a detail row of the bank statement with no receipt-shaped token appends no
\* record, in any section and under any motive, and no record has an empty RECIBO.
C17_SinReciboSinRegistro ==
    /\ \A k \in 1..Len(registros) : registros[k].RECIBO # <<>>
    /\ \A n \in 1..i_fila : doc[hoja].filas[n] \in FilasSinRecibo => Emitidos(n) = {}

\* a row without a receipt has been read in section IN under a motive, by the parser
\* of prosegur_unificado_v4_2.py
C17_Testigo ==
    /\ tipo = "v4.get_ec_banco"
    /\ i_fila = 3
    /\ doc[hoja].filas[1] = F_INGRESOS
    /\ doc[hoja].filas[2] = F_MOTIVO
    /\ doc[hoja].filas[3] \in FilasSinRecibo
    /\ ing_egr = "IN"
    /\ motivo_actual = C_MOTIVO

\* the same for the parser of version_final_mod_2.py
C17_TestigoVfm ==
    /\ tipo = "parse_ec_efect_bco_xlsx"
    /\ i_fila = 3
    /\ doc[hoja].filas[1] = F_INGRESOS
    /\ doc[hoja].filas[2] = F_MOTIVO
    /\ doc[hoja].filas[3] \in FilasSinRecibo
    /\ current_section = TXT_INGRESOS
    /\ current_motivo = C_MOTIVO

\* both parsers append records for the rows that do hold a receipt
C17_HayRegistros ==
    \E n \in 1..i_fila :
        /\ doc[hoja].filas[n] \in {F_DETALLE_BCO, F_VFM_DETALLE}
        /\ Emitidos(n) # {}

(***************************************************************************)
(* The agency of a document: AGENCIA_ALIASES, _agencia_code_from_text,     *)
(* infer_agencia_from_filename, resolve_agencia_base and                   *)
(* fill_agencia_column of comsol.py (183-272), and AGENCIA_ALIASES,        *)
(* _agencia_code_from_text, _resolve_agencia and normalize_agencia_col of  *)
(* prosegur_unificado_v4_2.py (135-181).  A path is the tuple of its       *)
(* parts, the file name last; None and '' are both written <<>>.           *)
(***************************************************************************)
AG_ASU == <<"A","S","U">>
AG_CDE == <<"C","D","E">>
AG_CNC == <<"C","N","C">>
AG_ENC == <<"E","N","C">>
AG_OVD == <<"O","V","D">>
AG_CON == <<"C","O","N">>

\* AGENCIA_ALIASES of comsol.py, in the order of the dictionary
AGENCIA_ALIASES ==
    <<[code |-> AG_ASU,
       aliases |-> <<<<"A","S","U">>, <<"A","S","U","N","C","I","O","N">>, <<"A","S","U","N","C","I","Ó","N">>, <<"A","S","U","N","C","I","O","N",".">>, <<"A","S","U","N","C","I","Ó","N",".">>,
                     <<"A","S","U","N","C","I","O","N"," ","C","E","N","T","R","O">>>>],
      [code |-> AG_CDE,
       aliases |-> <<<<"C","D","E">>, <<"C","I","U","D","A","D"," ","D","E","L"," ","E","S","T","E">>, <<"C","."," ","D","E","L"," ","E","S","T","E">>, <<"C"," ","D","E","L"," ","E","S","T","E">>,
                     <<"C","I","U","D","A","D"," ","D","E","L"," ","E",".">>, <<"C","D","E",".">>>>],
      [code |-> AG_CNC, aliases |-> <<<<"C","N","C">>, <<"C","O","N","C","E","P","C","I","O","N">>, <<"C","O","N","C","E","P","C","I","Ó","N">>>>],
      [code |-> AG_ENC, aliases |-> <<<<"E","N","C">>, <<"E","N","C","A","R","N","A","C","I","O","N">>, <<"E","N","C","A","R","N","A","C","I","Ó","N">>>>],
      [code |-> AG_OVD,
       aliases |-> <<<<"O","V","D">>, <<"C","O","R","O","N","E","L"," ","O","V","I","E","D","O">>, <<"C","N","E","L","."," ","O","V","I","E","D","O">>, <<"C","."," ","O","V","I","E","D","O">>>>]>>

\* AGENCIA_ALIASES of prosegur_unificado_v4_2.py
v4_AGENCIA_ALIASES ==
    <<[code |-> AG_OVD, aliases |-> <<<<"O","V","D">>, <<"O","V","I","E","D","O">>>>],
      [code |-> AG_ENC, aliases |-> <<<<"E","N","C">>, <<"E","N","C","A","R","N","A","C","I","O","N">>, <<"E","N","C","A","R","N","A","C","I","Ó","N">>, <<"E","N","C","A">>>>],
      [code |-> AG_CON, aliases |-> <<<<"C","O","N">>, <<"C","O","N","C","E","P","C","I","O","N">>, <<"C","O","N","C","E","P","C","I","Ó","N">>>>],
      [code |-> AG_ASU, aliases |-> <<<<"A","S","U">>, <<"A","S","U","N","C","I","O","N">>, <<"A","S","U","N","C","I","Ó","N">>>>],
      [code |-> AG_CDE,
       aliases |-> <<<<"C","D","E">>, <<"C","I","U","D","A","D"," ","D","E","L"," ","E","S","T","E">>, <<"C","."," ","D","E","L"," ","E","S","T","E">>, <<"C"," ","D","E","L"," ","E","S","T","E">>, <<"C","D","E",".">>>>]>>

\* \b of the re module at the place between u[p - 1] and u[p]
Frontera(u, p) ==
    (p - 1 >= 1 /\ EsCharPalabra(u[p - 1])) # (p <= Len(u) /\ EsCharPalabra(u[p]))

\* re.search(r'\b' + re.escape(w) + r'\b', u)
BuscaConBordes(u, w) ==
    \E i \in Apariciones(u, w) : Frontera(u, i) /\ Frontera(u, i + Len(w))

\* the body the two _agencia_code_from_text share: the codes first, then the
\* aliases, each in the order of the table; <<>> for None
CodigoEnTexto(tabla, text) ==
    LET t == upper(_strip_accents(text))
        directos == {k \in 1..Len(tabla) : BuscaConBordes(t, tabla[k].code)}
        por_alias == {k \in 1..Len(tabla) :
                          \E a \in 1..Len(tabla[k].aliases) :
                              BuscaConBordes(t, upper(_strip_accents(tabla[k].aliases[a])))}
    IN  IF text = <<>> THEN <<>>
        ELSE IF directos # {} THEN tabla[Min(directos)].code
        ELSE IF por_alias # {} THEN tabla[Min(por_alias)].code
        ELSE <<>>

_agencia_code_from_text(text) == CodigoEnTexto(AGENCIA_ALIASES, text)

v4_agencia_code_from_text(text) == CodigoEnTexto(v4_AGENCIA_ALIASES, text)

\* AGENCIA_FILE_DIGIT_MAP.get(d, '')
AGENCIA_FILE_DIGIT_MAP(d) ==
    IF d = "1" THEN AG_ASU
    ELSE IF d = "2" THEN AG_CDE
    ELSE IF d = "5" THEN AG_CNC
    ELSE IF d = "3" THEN AG_ENC
    ELSE IF d = "4" THEN AG_OVD
    ELSE <<>>

\* the places of group 2 in the matches of AGENCIA_FILE_PATTERN,
\* (^|[^0-9])([1-5])_10([^0-9]|$), in name
AGENCIA_FILE_PATTERN(name) ==
    {i \in 1..Len(name) :
         /\ name[i] \in {"1", "2", "3", "4", "5"}
         /\ (i = 1 \/ ~isdigit(name[i - 1]))
         /\ i + 3 <= Len(name) /\ SubSeq(name, i + 1, i + 3) = <<"_","1","0">>
         /\ (i + 3 = Len(name) \/ ~isdigit(name[i + 4]))}

\* Path(path).name
NombreDe(path) == path[Len(path)]

infer_agencia_from_filename(path) ==
    LET name == upper(NombreDe(path))
        m == AGENCIA_FILE_PATTERN(name)
    IN  IF m = {} THEN <<>> ELSE AGENCIA_FILE_DIGIT_MAP(name[Min(m)])

\* for part in reversed(p.parts): the code of the last part that has one
CodigoEnPartes(tabla, path) ==
    LET con == {k \in 1..Len(path) : CodigoEnTexto(tabla, path[k]) # <<>>}
    IN  IF con = {} THEN <<>> ELSE CodigoEnTexto(tabla, path[Max(con)])

resolve_agencia_base(path_entrada, agencia_carpeta) ==
    IF infer_agencia_from_filename(path_entrada) # <<>>
    THEN infer_agencia_from_filename(path_entrada)
    ELSE IF _agencia_code_from_text(agencia_carpeta) # <<>>
    THEN _agencia_code_from_text(agencia_carpeta)
    ELSE CodigoEnPartes(AGENCIA_ALIASES, path_entrada)

\* x or y
O_texto(x, y) == IF x # <<>> THEN x ELSE y

\* fill_agencia_column on the column AGENCIA of df: the column it leaves
fill_agencia_column(columna, path_entrada, agencia_carpeta) ==
    LET non_empty == SelectSeq([i \in 1..Len(columna) |-> strip(columna[i])],
                               LAMBDA v : v # <<>>)
        base == IF non_empty # <<>>
                THEN O_texto(_agencia_code_from_text(non_empty[1]), non_empty[1])
                ELSE resolve_agencia_base(path_entrada, agencia_carpeta)
    IN  IF columna = <<>> \/ base = <<>> THEN columna
        ELSE [i \in 1..Len(columna) |-> O_texto(_agencia_code_from_text(base), base)]

\* _resolve_agencia of prosegur_unificado_v4_2.py
_resolve_agencia(agencia_doc, filename, filepath) ==
    IF agencia_doc # <<>>
    THEN O_texto(v4_agencia_code_from_text(agencia_doc), agencia_doc)
    ELSE IF v4_agencia_code_from_text(filename) # <<>>
    THEN v4_agencia_code_from_text(filename)
    ELSE CodigoEnPartes(v4_AGENCIA_ALIASES, filepath)

\* normalize_agencia_col of prosegur_unificado_v4_2.py, for a text
normalize_agencia_col(val) == O_texto(v4_agencia_code_from_text(val), val)

\* get_inv_atm and get_inv_bco of comsol.py (1021-1034, 1057-1070): every line that
\* v4.get_inv_atm collected carries _resolve_agencia(...) of its sheet, and the
\* wrapper hands the table to fill_agencia_column
comsol_get_inv(agencia_doc, path_entrada, agencia_carpeta, n) ==
    fill_agencia_column([i \in 1..n |-> _resolve_agencia(agencia_doc, NombreDe(path_entrada),
                                                         path_entrada)],
                        path_entrada, agencia_carpeta)

(***************************************************************************)
(* normalize_agencia_to_cod of version_final_mod_2.py (227-241) and the    *)
(* way its callers use what it returns (514-515).  A pattern is the words  *)
(* that \s+ separates, and whether \.? follows the first of them.          *)
(***************************************************************************)
AGENCIA_PATTERNS ==
    <<[cod |-> AG_ASU,
       patterns |-> <<[palabras |-> <<<<"C","A","S","A">>, <<"M","A","T","R","I","Z">>>>, punto |-> FALSE],
                      [palabras |-> <<<<"A","S","U","N","C","I","O","N">>>>, punto |-> FALSE],
                      [palabras |-> <<<<"A","S","U","N","C","I","Ó","N">>>>, punto |-> FALSE],
                      [palabras |-> <<<<"A","S","U">>>>, punto |-> FALSE]>>],
      [cod |-> AG_CDE,
       patterns |-> <<[palabras |-> <<<<"C","I","U","D","A","D">>, <<"D","E","L">>, <<"E","S","T","E">>>>, punto |-> FALSE],
                      [palabras |-> <<<<"C","D","E">>>>, punto |-> FALSE]>>],
      [cod |-> AG_ENC,
       patterns |-> <<[palabras |-> <<<<"E","N","C","A","R","N","A","C","I","O","N">>>>, punto |-> FALSE],
                      [palabras |-> <<<<"E","N","C","A","R","N","A","C","I","Ó","N">>>>, punto |-> FALSE],
                      [palabras |-> <<<<"E","N","C">>>>, punto |-> FALSE]>>],
      [cod |-> AG_OVD,
       patterns |-> <<[palabras |-> <<<<"C","N","E","L">>, <<"O","V","I","E","D","O">>>>, punto |-> TRUE],
                      [palabras |-> <<<<"C","O","R","O","N","E","L">>, <<"O","V","I","E","D","O">>>>, punto |-> FALSE],
                      [palabras |-> <<<<"O","V","I","E","D","O">>>>, punto |-> FALSE],
                      [palabras |-> <<<<"O","V","D">>>>, punto |-> FALSE]>>]>>

\* the rest of a pattern from place j of u on: \.? when punto, then for every word
\* left \s+ and the word; the place after the last word, None when it does not match
RECURSIVE SiguenPalabras(_, _, _, _)
RECURSIVE SigueDesde(_, _, _, _)
SiguenPalabras(u, j, ws, punto) ==
    IF ws = <<>> THEN j
    ELSE IF punto /\ j <= Len(u) /\ u[j] = "."
    THEN SigueDesde(u, j + 1, SaltaEspacios(u, j + 1), ws)
    ELSE SigueDesde(u, j, SaltaEspacios(u, j), ws)

SigueDesde(u, j1, j2, ws) ==
    IF j2 > j1 /\ j2 + Len(ws[1]) - 1 <= Len(u) /\ SubSeq(u, j2, j2 + Len(ws[1]) - 1) = ws[1]
    THEN SiguenPalabras(u, j2 + Len(ws[1]), Tail(ws), FALSE)
    ELSE None

\* the match of \b ... \b that starts at place i of u ends before this place
FinDePatron(u, i, pat) ==
    SiguenPalabras(u, i + Len(pat.palabras[1]), Tail(pat.palabras), pat.punto)

\* re.search(pat, u)
BuscaPatron(u, pat) ==
    \E i \in Apariciones(u, pat.palabras[1]) :
        /\ Frontera(u, i)
        /\ FinDePatron(u, i, pat) # None
        /\ Frontera(u, FinDePatron(u, i, pat))

\* the entries of AGENCIA_PATTERNS of which some pattern is found in u
AgenciasQueCasan(u) ==
    {k \in 1..Len(AGENCIA_PATTERNS) :
         \E p \in 1..Len(AGENCIA_PATTERNS[k].patterns) :
             BuscaPatron(u, AGENCIA_PATTERNS[k].patterns[p])}

\* remove_accents(str(value).strip().upper())
TextoParaPatrones(value) == _strip_accents(upper(strip(value)))

\* a code is returned although nothing matched
normalize_agencia_to_cod_primera(value) ==
    IF value = <<>> THEN <<>>
    ELSE IF AgenciasQueCasan(TextoParaPatrones(value)) # {}
    THEN AGENCIA_PATTERNS[Min(AgenciasQueCasan(TextoParaPatrones(value)))].cod
    ELSE AGENCIA_PATTERNS[1].cod

normalize_agencia_to_cod(value) ==
    IF value = <<>> THEN <<>>
    ELSE IF AgenciasQueCasan(TextoParaPatrones(value)) # {}
    THEN AGENCIA_PATTERNS[Min(AgenciasQueCasan(TextoParaPatrones(value)))].cod
    ELSE <<>>

\* parse_inv_billetes_pdf_bco (514-515) on group 1 of 'SUC:\s*(.+)':
\* agencia_raw = ....strip(); agencia = normalize_agencia_to_cod(agencia_raw) or agencia_raw
agencia_pdf_bco(grupo) == O_texto(normalize_agencia_to_cod(strip(grupo)), strip(grupo))

(***************************************************************************)
(* The helpers above called on their own: Init draws the arguments, one    *)
(* step is one call.                                                       *)
(***************************************************************************)
T_VILLARRICA == <<"V","i","l","l","a","r","r","i","c","a">>
T_CIUDAD_DEL_ESTE == <<"C","i","u","d","a","d"," ","d","e","l"," ","E","s","t","e">>
T_CONCEPCION == <<"C","o","n","c","e","p","c","i","ó","n">>
N_SIN_CODIGO == <<"E","C","_","A","T","M",".","x","l","s","x">>
N_2_10 == <<"2","_","1","0","_","I","N","V","_","A","T","M",".","x","l","s","x">>
N_ALIAS_ENC == <<"E","C"," ","A","T","M"," ","E","N","C",".","x","l","s","x">>
N_12_10 == <<"1","2","_","1","0","_","E","C","_","A","T","M",".","x","l","s","x">>
D_PROSEGUR == <<"P","R","O","S","E","G","U","R">>
D_ENERO == <<"E","N","E","R","O">>
T_CNEL_OVIEDO == <<"C","n","e","l","."," ","O","v","i","e","d","o">>
T_CASA_MATRIZ == <<"C","a","s","a"," "," ","M","a","t","r","i","z">>
T_ENCARNACION == <<"E","N","C","A","R","N","A","C","I","Ó","N">>
T_SUC_OVIEDO == <<"S","u","c","."," ","O","v","i","e","d","o">>
T_VILLARRICA_ESP == <<"V","i","l","l","a","r","r","i","c","a"," "," ">>
T_CDE_ESP == <<"C","D","E"," ">>

\* the agency texts a document gives: none, a code, an alias, and names of no table
TextosAgencia == {<<>>, AG_CDE, T_CIUDAD_DEL_ESTE, T_CONCEPCION, T_VILLARRICA}

NombresArchivo == {N_SIN_CODIGO, N_2_10, N_ALIAS_ENC, N_12_10}

\* the folders of collect_pending_files_prosegur: PROSEGUR/<agency>/**/<file>
Rutas ==
    {<<D_PROSEGUR, ag, n>> : ag \in {AG_ASU, AG_CNC, AG_OVD}, n \in NombresArchivo}
        \cup {<<D_PROSEGUR, ag, sub, n>> : ag \in {AG_ASU, AG_CNC, AG_OVD},
                                           sub \in {D_ENERO, AG_ENC}, n \in NombresArchivo}

\* how many records the document gave before and after its agency was read
MaxRegistrosAgencia == 2

ArgsAgencia ==
    {[agencia_doc |-> d, path_entrada |-> p, agencia_carpeta |-> c, antes |-> a, n |-> k] :
        d \in TextosAgencia, p \in Rutas, c \in {<<>>, AG_ASU, AG_CNC, AG_OVD},
        a \in 0..1, k \in 1..MaxRegistrosAgencia}

FuncionesAgencia == {"fill_agencia_column", "_resolve_agencia", "get_inv_atm"}

\* the texts the parsers hand to the two normalisers: stripped where they were read
TextosNormaliza ==
    {<<>>, AG_CDE, T_CIUDAD_DEL_ESTE, T_CONCEPCION, T_VILLARRICA, T_CNEL_OVIEDO, T_CASA_MATRIZ,
     T_ENCARNACION, T_SUC_OVIEDO}

\* group 1 of 'SUC:\s*(.+)' in the text of a document, '' when there is no match
GruposSUC == TextosNormaliza \cup {T_VILLARRICA_ESP, T_CDE_ESP}

FuncionesNormaliza ==
    {"normalize_agencia_col", "normalize_agencia_to_cod", "parse_inv_billetes_pdf_bco"}

InitAgencia ==
    /\ fn \in FuncionesAgencia \cup FuncionesNormaliza
    /\ args \in IF fn = "parse_inv_billetes_pdf_bco" THEN {[val |-> t] : t \in GruposSUC}
                ELSE IF fn \in FuncionesNormaliza THEN {[val |-> t] : t \in TextosNormaliza}
                ELSE {a \in ArgsAgencia :
                         \* _dispatch_and_process hands the agency folder of the file, the
                         \* parsers on their own default to None
                         /\ a.agencia_carpeta \in {<<>>, a.path_entrada[2]}
                         /\ fn # "fill_agencia_column" => a.antes = 0
                         /\ fn = "_resolve_agencia" => a.n = 1 /\ a.agencia_carpeta = <<>>}
    /\ ret = <<>>
    /\ pc_fn = "entrada"
    /\ tipo = ""
    /\ SinParser
    /\ SinMain
    /\ SinDf
    /\ SinSaldos
    /\ SinBcoMas

Devuelve(valor) ==
    /\ pc_fn = "entrada"
    /\ ret' = valor
    /\ pc_fn' = "salida"
    /\ UNCHANGED <<varsParser, varsMain, varsDf, varsSaldos, varsBcoMas, fn, args>>

\* fill_agencia_column at the end of a ledger parser (comsol.py 536, 682, 840, 991): the
\* records appended before the identity row carry '', the later ones the agency read
LlamaFillAgencia ==
    /\ fn = "fill_agencia_column"
    /\ Devuelve(fill_agencia_column([i \in 1..(args.antes + args.n) |->
                                         IF i <= args.antes THEN <<>> ELSE args.agencia_doc],
                                    args.path_entrada, args.agencia_carpeta))

\* _resolve_agencia as the parsers of prosegur_unificado_v4_2.py call it
LlamaResolveAgencia ==
    /\ fn = "_resolve_agencia"
    /\ Devuelve(<<_resolve_agencia(args.agencia_doc, NombreDe(args.path_entrada),
                                   args.path_entrada)>>)

\* get_inv_atm of comsol.py on a workbook that gives args.n lines
LlamaInvAgencia ==
    /\ fn = "get_inv_atm"
    /\ Devuelve(comsol_get_inv(args.agencia_doc, args.path_entrada, args.agencia_carpeta,
                               args.n))

\* normalize_agencia_col on one value of the column AGENCIA
LlamaNormalizeCol ==
    /\ fn = "normalize_agencia_col"
    /\ Devuelve(<<normalize_agencia_col(args.val)>>)

LlamaNormalizeToCod ==
    /\ fn = "normalize_agencia_to_cod"
    /\ Devuelve(<<normalize_agencia_to_cod(args.val)>>)

\* the agency parse_inv_billetes_pdf_bco gives its records
LlamaAgenciaPdf ==
    /\ fn = "parse_inv_billetes_pdf_bco"
    /\ Devuelve(<<agencia_pdf_bco(args.val)>>)

NextAgencia ==
    \/ LlamaFillAgencia
    \/ LlamaResolveAgencia
    \/ LlamaInvAgencia
    \/ LlamaNormalizeCol
    \/ LlamaNormalizeToCod
    \/ LlamaAgenciaPdf

SpecAgencia == InitAgencia /\ [][NextAgencia]_vars

\* the three sources of section 4.4: the code the document text holds, the code the
\* file name holds by the convention <digit>_10, the name of the folder that holds
\* the file
FuenteDocumento ==
    CodigoEnTexto(IF fn = "fill_agencia_column" THEN AGENCIA_ALIASES ELSE v4_AGENCIA_ALIASES,
                  args.agencia_doc)

FuenteArchivo == infer_agencia_from_filename(args.path_entrada)

FuenteCarpeta ==
    CodigoEnTexto(IF fn = "_resolve_agencia" THEN v4_AGENCIA_ALIASES ELSE AGENCIA_ALIASES,
                  args.path_entrada[Len(args.path_entrada) - 1])

\* C21: the agency of every record is the first of the three sources that yields a
\* code, in the order document text, file name, containing folder, and empty when
\* none does.
C21_PrioridadAgencia ==
    (pc_fn = "salida" /\ fn \in FuncionesAgencia) =>
        \A i \in 1..Len(ret) :
            ret[i] = O_texto(FuenteDocumento, O_texto(FuenteArchivo, FuenteCarpeta))

\* an inventory whose file name says CDE by the convention, in the folder ASU, with
\* no agency in its text: the folder has decided
C21_Testigo ==
    /\ pc_fn = "salida"
    /\ fn = "get_inv_atm"
    /\ args.agencia_doc = <<>>
    /\ args.path_entrada = <<D_PROSEGUR, AG_ASU, N_2_10>>
    /\ args.agencia_carpeta = AG_ASU
    /\ ret = [i \in 1..args.n |-> AG_ASU]

\* at the end of a ledger parser called by _dispatch_and_process the order holds,
\* with the agency text of the document taken as it is when no table knows it
C21_PrioridadLedger ==
    (pc_fn = "salida" /\ fn = "fill_agencia_column" /\ args.agencia_carpeta # <<>>) =>
        \A i \in 1..Len(ret) :
            ret[i] = O_texto(O_texto(FuenteDocumento, args.agencia_doc),
                             O_texto(FuenteArchivo, args.agencia_carpeta))

\* the text handed to the normaliser matches no code and no alias of its table
SinCoincidencia ==
    /\ args.val # <<>>
    /\ IF fn = "normalize_agencia_col" THEN v4_agencia_code_from_text(args.val) = <<>>
       ELSE AgenciasQueCasan(TextoParaPatrones(args.val)) = {}

\* C22 as stated: a normaliser called on a text that matches no code and no alias
\* returns the trimmed text, never a code and never an empty value.
C22_DevuelveEntrada ==
    (pc_fn = "salida" /\ fn \in {"normalize_agencia_col", "normalize_agencia_to_cod"}
        /\ SinCoincidencia) =>
        ret = <<strip(args.val)>>

\* C22: on a text that matches no code and no alias no code is returned:
\* normalize_agencia_col returns the text as it is, normalize_agencia_to_cod returns
\* the empty value, and its caller puts the trimmed text in its place.
C22_NoInventaCodigo ==
    (pc_fn = "salida" /\ fn \in FuncionesNormaliza /\ SinCoincidencia) =>
        /\ fn = "normalize_agencia_col" => ret = <<args.val>>
        /\ fn = "normalize_agencia_to_cod" => ret = << <<>> >>
        /\ fn = "parse_inv_billetes_pdf_bco" => ret = <<strip(args.val)>>

\* the name of a town of no table has gone through normalize_agencia_to_cod, and the
\* same name, followed by blanks, through its caller
C22_Testigo ==
    /\ pc_fn = "salida"
    /\ \/ fn = "normalize_agencia_to_cod" /\ args.val = T_VILLARRICA /\ ret = << <<>> >>
       \/ fn = "parse_inv_billetes_pdf_bco" /\ args.val = T_VILLARRICA_ESP
              /\ ret = <<T_VILLARRICA>>

(***************************************************************************)
(* Identity rows of the ATM ledgers (comsol.py 453-458, 746-751): the same *)
(* row loops, read on sheets where identity rows of two branches stand     *)
(* before and between the records.                                         *)
(***************************************************************************)
MaxFilasIdentidad == 5

InitIdentidad ==
    /\ tipo \in {"EC_ATM", "EC_BULTOS_ATM"}
    /\ descartar_usd_cero \in (IF tipo = "EC_BULTOS_ATM" THEN BOOLEAN ELSE {TRUE})
    /\ doc \in {<<[nombre |-> N_HOJA1, filas |-> g]>> :
                    g \in Grillas(FilasIdentidad, MaxFilasIdentidad)}
    /\ Antes
    /\ SinBanco
    /\ SinInventario
    /\ SinOtros

SpecIdentidad == InitIdentidad /\ [][Next]_vars

\* the rows above row n from which the identity branch reads a sucursal
IdentidadesAntes(n) ==
    {j \in 1..(n - 1) : Contiene(Fila(j).upper_join, TXT_PROSEGUR) /\ Fila(j).m # <<>>}

\* the sucursal of the first of them
PrimeraAgencia(n) == Fila(Min(IdentidadesAntes(n))).m[1]

\* C23: every record carries the sucursal of the first identity row above it; an
\* identity row further down with another sucursal does not change it.
C23_PrimeraAgencia ==
    \A k \in 1..Len(registros) :
        IdentidadesAntes(origen[k][2]) # {} =>
            registros[k].AGENCIA = PrimeraAgencia(origen[k][2])

\* two identity rows of different branches, then the section, the motive and a
\* detail row: the record carries the sucursal of the second
C23_Testigo ==
    /\ tipo = "EC_ATM"
    /\ doc[1].filas = <<F_IDENT, F_IDENT_2, F_INGRESOS, F_MOTIVO_DEP, F_DETALLE>>
    /\ i_fila = 5
    /\ Len(registros) = 1
    /\ registros[1].AGENCIA = AG_ASU

\* the column AGENCIA as fill_agencia_column leaves it when the scan is over
\* (comsol.py 536), for a file of no code in the folder OVD
ColumnaAgencia ==
    fill_agencia_column([k \in 1..Len(registros) |-> registros[k].AGENCIA],
                        <<D_PROSEGUR, AG_OVD, N_SIN_CODIGO>>, AG_OVD)

\* the same of the table written: fill_agencia_column makes the column one value,
\* and that value is the sucursal of the first identity row of the sheet
C23_PrimeraAgenciaEscrita ==
    (i_fila = Len(doc[hoja].filas) /\ IdentidadesAntes(i_fila + 1) # {}) =>
        \A k \in 1..Len(registros) :
            registros[k].AGENCIA # <<>> => ColumnaAgencia[k] = PrimeraAgencia(i_fila + 1)

\* what does hold of the table written: the column is one value, that of the
\* first record that carries a sucursal
C23_ColumnaUniforme ==
    \A k \in 1..Len(registros) :
        \A j \in 1..Len(registros) :
            (registros[j].AGENCIA # <<>> /\ \A h \in 1..(j - 1) : registros[h].AGENCIA = <<>>)
                => ColumnaAgencia[k] = registros[j].AGENCIA

(***************************************************************************)
(* Section markers and the rows that leave section and motive alone        *)
(* (comsol.py 444-480), on the sheets of Spec.                             *)
(***************************************************************************)
\* the motive lines between the last marker row above row n and row n
MotivosDeLaSeccion(n) ==
    {j \in (Max(Marcadores(n)) + 1)..(n - 1) : Clase(j) = "texto"}

\* C24: a row whose text is exactly INGRESOS (EGRESOS) leaves the section IN (OUT)
\* and the motive empty, and the motive of every record is a motive line that stands
\* below the last marker row above the record, never one of an earlier section.
C24_MarcadorReiniciaMotivo ==
    /\ (i_fila >= 1 /\ Fila(i_fila).upper_join = TXT_INGRESOS)
           => (ing_egr = "IN" /\ motivo_actual = <<>>)
    /\ (i_fila >= 1 /\ Fila(i_fila).upper_join = TXT_EGRESOS)
           => (ing_egr = "OUT" /\ motivo_actual = <<>>)
    /\ \A k \in 1..Len(registros) :
           /\ Marcadores(origen[k][2]) # {}
           /\ MotivosDeLaSeccion(origen[k][2]) # {}
           /\ registros[k].MOTIVO_MOVIMIENTO
                  = strip(Fila(Max(MotivosDeLaSeccion(origen[k][2]))).line_join)

\* a motive captured in section IN, then the marker EGRESOS and a detail row: the
\* motive is gone and the detail row has appended nothing
C24_Testigo ==
    /\ doc[1].filas = <<F_INGRESOS, F_MOTIVO, F_EGRESOS, F_DETALLE>>
    /\ i_fila = 4
    /\ ing_egr = "OUT"
    /\ motivo_actual = <<>>
    /\ registros = <<>>

(***************************************************************************)
(* parse_ec_efect_atm_xlsx (625-689) and parse_ec_bultos_atm_xlsx          *)
(* (365-425) of version_final_mod_2.py: the body of the row loop as a      *)
(* function from the parse state e and a row to the next parse state.      *)
(* A cell is its text, <<>> for NaN; None is written <<>>.                 *)
(***************************************************************************)
F_SALDO_VFM == <<C_SALDO, C_SALDO_3, C_SALDO_2>>

FilasVfmATM ==
    {F_INGRESOS, F_EGRESOS, F_MOTIVO, F_TOTAL, F_TOTAL_INGRESOS, F_INGRESOS_VARIOS,
     F_SALDO_VFM, F_INFORME, F_VFM_DETALLE}

\* s.startswith(p)
startswith(s, p) == Len(s) >= Len(p) /\ SubSeq(s, 1, Len(p)) = p

\* " ".join(map(str, filter(pd.notna, row))).upper()
TxtNotna(row) ==
    LET dados == SelectSeq(row, LAMBDA x : ~isna(x))
    IN  upper(join([i \in 1..Len(dados) |-> str(dados[i])]))

\* 0.0
CERO == [neg |-> FALSE, ent |-> <<>>, frac |-> <<>>]

\* the places the three while loops of parse_ec_bultos_atm_xlsx stop at (392-405):
\* the first date cell, the first cell after d that is not blank, the first cell
\* after s with five digits or more; None when the loop runs out
idx_fecha(row) ==
    LET c == {i \in 1..Len(row) : to_ddmmyyyy(row[i]) # <<>>}
    IN  IF c = {} THEN None ELSE Min(c)

idx_sucursal(row, d) ==
    LET c == {i \in (d + 1)..Len(row) : strip(str(row[i])) # <<>>}
    IN  IF d = None \/ c = {} THEN None ELSE Min(c)

idx_recibo(row, s) ==
    LET c == {i \in (s + 1)..Len(row) : Len(clean_digits(row[i])) >= 5}
    IN  IF s = None \/ c = {} THEN None ELSE Min(c)

\* nums = [parse_numeric(c) for c in row[idx:] if pd.notna(c)] without the None,
\* then "while len(nums) < 4: nums.append(0.0)" (407-409)
nums_bultos(row, r) ==
    LET n == Candidatos([i \in 1..(Len(row) - r) |-> parse_numeric(row[r + i])])
    IN  [i \in 1..(IF Len(n) < 4 THEN 4 ELSE Len(n)) |-> IF i <= Len(n) THEN n[i] ELSE CERO]

CamposBultosVfm(row, d, s, r) ==
    [fecha |-> IF d = None THEN <<>> ELSE to_ddmmyyyy(row[d]),
     sucursal |-> IF s = None THEN <<>> ELSE strip(str(row[s])),
     recibo |-> IF r = None THEN <<>> ELSE clean_digits(row[r]),
     nums |-> IF r = None THEN <<>> ELSE nums_bultos(row, r)]

TrasSucursal(row, d, s) == CamposBultosVfm(row, d, s, idx_recibo(row, s))

TrasFecha(row, d) == TrasSucursal(row, d, idx_sucursal(row, d))

\* what one iteration of either row loop computes from the row: the fields of
\* parse_ec_efect_atm_xlsx are those of parse_ec_efect_bco_xlsx (643-671 and
\* 463-484 are the same loops), the last four those of parse_ec_bultos_atm_xlsx
LeerFilaVfmATM(row) ==
    LeerFilaVfm(row)
        @@ [txt_upper |-> strip(TxtNotna(row)), txt_notna |-> TxtNotna(row),
            bultos_atm |-> TrasFecha(row, idx_fecha(row))]

LecturaVfmATM == [row \in FilasVfmATM |-> LeerFilaVfmATM(row)]

EstadoVfmATM ==
    [section |-> current_section, motivo |-> current_motivo, started |-> started,
     agencia |-> agencia, fecha_archivo |-> fecha_archivo, registros |-> registros,
     origen |-> origen, pc |-> pc]

\* add_row(moneda, monto) of parse_ec_efect_atm_xlsx (677-683)
RegistroEfectATM(e, L, moneda, monto) ==
    [FECHA_OPERACION |-> L.fecha[1], SUCURSAL |-> L.sucursal, RECIBO |-> L.recibo,
     BULTOS |-> L.bultos, MONTO |-> monto, MONEDA |-> moneda,
     ING_EGR |-> IF e.section = TXT_INGRESOS THEN "IN" ELSE "OUT",
     CLASIFICACION |-> "ATM", FECHA_ARCHIVO |-> e.fecha_archivo,
     MOTIVO_MOVIMIENTO |-> IF e.motivo # <<>> THEN e.motivo ELSE e.section,
     AGENCIA |-> e.agencia, ARCHIVO_ORIGEN |-> N_ARCHIVO]

\* monto_gs, monto_usd of nums_tail (672-676), then the two add_row (684-685)
AnotaEfectATM(e, L, donde, monto_gs, monto_usd) ==
    LET nuevos == (IF ~EsCero(monto_gs) THEN <<RegistroEfectATM(e, L, ISO_PYG, monto_gs)>>
                                        ELSE <<>>)
                      \o (IF ~EsCero(monto_usd)
                          THEN <<RegistroEfectATM(e, L, ISO_USD, monto_usd)>> ELSE <<>>)
    IN  [e EXCEPT !.registros = @ \o nuevos,
                  !.origen = @ \o [i \in 1..Len(nuevos) |-> donde]]

\* motivo, section = None, None (645)
ParadaEfectATM(e) == [e EXCEPT !.motivo = <<>>, !.section = <<>>]

parse_ec_efect_atm_xlsx(e, row, donde) ==
    LET L == LecturaVfmATM[row]
        t == L.importe_candidates
    IN  IF Contiene(L.txt_upper, TXT_INFORME) THEN [e EXCEPT !.pc = "fin"]
        ELSE IF L.txt_upper = TXT_INGRESOS
             THEN [e EXCEPT !.section = TXT_INGRESOS, !.motivo = <<>>, !.started = TRUE]
        ELSE IF L.txt_upper = TXT_EGRESOS
             THEN [e EXCEPT !.section = TXT_EGRESOS, !.motivo = <<>>, !.started = TRUE]
        ELSE IF ~e.started THEN e
        ELSE IF startswith(L.txt_upper, TXT_TOTAL) /\ ~L.has_string_date
             THEN ParadaEfectATM(e)
        ELSE IF Len(L.nonempty) = 1 /\ to_ddmmyyyy(L.nonempty[1]) = <<>>
             THEN [e EXCEPT !.motivo = strip(str(L.nonempty[1]))]
        ELSE IF L.fecha = <<>> THEN e
        ELSE IF L.sucursal = <<>> THEN e
        ELSE IF L.recibo = <<>> THEN e
        ELSE AnotaEfectATM(e, L, donde,
                           IF Len(t) >= 2 THEN t[Len(t) - 1]
                           ELSE IF Len(t) = 1 THEN t[1] ELSE CERO,
                           IF Len(t) >= 2 THEN t[Len(t)] ELSE CERO)

\* add_row(moneda, bultos, monto) of parse_ec_bultos_atm_xlsx (411-417)
RegistroBultosVfm(e, B, moneda, bultos, monto) ==
    [FECHA_OPERACION |-> B.fecha[1], SUCURSAL |-> B.sucursal, RECIBO |-> B.recibo,
     BULTOS |-> IF ~EsCero(bultos) THEN int(bultos) ELSE <<>>, MONTO |-> monto,
     MONEDA |-> moneda,
     ING_EGR |-> IF e.section = TXT_INGRESOS THEN "IN" ELSE "OUT",
     CLASIFICACION |-> "ATM", FECHA_ARCHIVO |-> e.fecha_archivo,
     MOTIVO_MOVIMIENTO |-> IF e.motivo # <<>> THEN e.motivo ELSE e.section,
     AGENCIA |-> e.agencia, ARCHIVO_ORIGEN |-> N_ARCHIVO]

\* bgs, mgs, busd, musd = nums[0..3], then the two add_row (410, 419-420)
AnotaBultosVfm(e, B, donde) ==
    LET nuevos == (IF ~EsCero(B.nums[1]) \/ ~EsCero(B.nums[2])
                   THEN <<RegistroBultosVfm(e, B, ISO_PYG, B.nums[1], B.nums[2])>> ELSE <<>>)
                      \o (IF ~EsCero(B.nums[3]) \/ ~EsCero(B.nums[4])
                          THEN <<RegistroBultosVfm(e, B, ISO_USD, B.nums[3], B.nums[4])>>
                          ELSE <<>>)
    IN  [e EXCEPT !.registros = @ \o nuevos,
                  !.origen = @ \o [i \in 1..Len(nuevos) |-> donde]]

\* section, motivo, started = None, None, False (383)
SaldoAnteriorVfm(e) == [e EXCEPT !.section = <<>>, !.motivo = <<>>, !.started = FALSE]

parse_ec_bultos_atm_xlsx(e, row, donde) ==
    LET L == LecturaVfmATM[row]
    IN  IF Contiene(L.txt_notna, ETIQUETA_SALDO) THEN SaldoAnteriorVfm(e)
        ELSE IF Contiene(L.txt_notna, TXT_INGRESOS) /\ ~Contiene(L.txt_notna, TXT_EGRESOS)
             THEN [e EXCEPT !.section = TXT_INGRESOS, !.motivo = <<>>, !.started = TRUE]
        ELSE IF Contiene(L.txt_notna, TXT_EGRESOS)
             THEN [e EXCEPT !.section = TXT_EGRESOS, !.motivo = <<>>, !.started = TRUE]
        ELSE IF Contiene(L.txt_notna, TXT_INFORME) THEN [e EXCEPT !.pc = "fin"]
        ELSE IF ~e.started THEN e
        ELSE IF Contiene(L.txt_notna, TXT_TOTAL) /\ ~L.has_string_date
             THEN [e EXCEPT !.motivo = <<>>]
        ELSE IF Len(L.nonempty) = 1 /\ to_ddmmyyyy(L.nonempty[1]) = <<>>
             THEN [e EXCEPT !.motivo = strip(str(L.nonempty[1]))]
        ELSE IF L.bultos_atm.fecha = <<>> THEN e
        ELSE IF L.bultos_atm.sucursal = <<>> THEN e
        ELSE IF L.bultos_atm.recibo = <<>> THEN e
        ELSE AnotaBultosVfm(e, L.bultos_atm, donde)

(***************************************************************************)
(* The two parsers as a state machine: the workbook is the input, one step *)
(* is the head of the sheet loop or one iteration of the row loop.         *)
(***************************************************************************)
MaxFilasVfmATM == 4

InitVfmATM ==
    /\ tipo \in {"parse_ec_efect_atm_xlsx", "parse_ec_bultos_atm_xlsx"}
    /\ descartar_usd_cero = TRUE
    /\ doc \in {<<[nombre |-> N_HOJA1, filas |-> g]>> :
                    g \in Grillas(FilasVfmATM, MaxFilasVfmATM)}
    /\ agencia = <<>>
    /\ fecha_archivo = <<>>
    /\ ing_egr = ""
    /\ motivo_actual = <<>>
    /\ saldo_anterior = <<>>
    /\ moneda_actual = <<>>
    /\ saldo_ant_usd = <<>>
    /\ saldo_ant_pyg = <<>>
    /\ registros = <<>>
    /\ origen = <<>>
    /\ previa = <<>>
    /\ hoja = 0
    /\ i_fila = 0
    /\ pc = "hojas"
    /\ SinInventario
    /\ SinMain
    /\ SinDf
    /\ SinResto

\* the next iteration of "for sheet_name in xl.sheet_names" of either parser: no row
\* of FilasVfmATM holds 'SUC:' or the title of the statement, so agencia is '' and
\* fecha_archivo None (632-636, 373-377)
HojaVfmATM ==
    /\ tipo \in {"parse_ec_efect_atm_xlsx", "parse_ec_bultos_atm_xlsx"}
    /\ OtraHoja
    /\ agencia' = <<>>
    /\ fecha_archivo' = <<>>
    /\ current_section' = <<>>
    /\ current_motivo' = <<>>
    /\ started' = FALSE
    /\ pc' = "filas"
    /\ hoja' = hoja + 1
    /\ i_fila' = 0
    /\ UNCHANGED <<varsMain, varsDf, varsSaldos, varsFn, clasificacion, extra_cliente, tipo,
                   descartar_usd_cero, doc, registros, origen, ing_egr, motivo_actual,
                   moneda_actual, saldo_ant_usd, saldo_ant_pyg, saldo_anterior, previa,
                   varsInv>>

AsignaVfmATM(e) ==
    /\ current_section' = e.section
    /\ current_motivo' = e.motivo
    /\ started' = e.started
    /\ registros' = e.registros
    /\ origen' = e.origen
    /\ pc' = e.pc
    /\ i_fila' = i_fila + 1
    /\ UNCHANGED <<varsMain, varsDf, varsSaldos, varsFn, clasificacion, extra_cliente, tipo,
                   descartar_usd_cero, doc, hoja, agencia, fecha_archivo, ing_egr,
                   motivo_actual, moneda_actual, saldo_ant_usd, saldo_ant_pyg,
                   saldo_anterior, previa, varsInv>>

\* one iteration of "for _, row_series in df_raw.iterrows()" of parse_ec_efect_atm_xlsx
FilaEfectATMVfm ==
    /\ tipo = "parse_ec_efect_atm_xlsx"
    /\ pc = "filas"
    /\ i_fila < Len(doc[hoja].filas)
    /\ AsignaVfmATM(parse_ec_efect_atm_xlsx(EstadoVfmATM, doc[hoja].filas[i_fila + 1],
                                            <<hoja, i_fila + 1>>))

\* the same of parse_ec_bultos_atm_xlsx
FilaBultosATMVfm ==
    /\ tipo = "parse_ec_bultos_atm_xlsx"
    /\ pc = "filas"
    /\ i_fila < Len(doc[hoja].filas)
    /\ AsignaVfmATM(parse_ec_bultos_atm_xlsx(EstadoVfmATM, doc[hoja].filas[i_fila + 1],
                                             <<hoja, i_fila + 1>>))

NextVfmATM == HojaVfmATM \/ FilaEfectATMVfm \/ FilaBultosATMVfm

SpecVfmATM == InitVfmATM /\ [][NextVfmATM]_vars

FilaVfmATM(n) == LecturaVfmATM[doc[hoja].filas[n]]

\* the marker rows of parse_ec_efect_atm_xlsx above row n
MarcadoresEfectATM(n) ==
    {m \in 1..(n - 1) : FilaVfmATM(m).txt_upper \in {TXT_INGRESOS, TXT_EGRESOS}}

\* the rows above row n that parse_ec_efect_atm_xlsx takes as stop-rows
ParadasEfectATM(n) ==
    {m \in 1..(n - 1) : /\ MarcadoresEfectATM(m) # {}
                        /\ FilaVfmATM(m).txt_upper \notin {TXT_INGRESOS, TXT_EGRESOS}
                        /\ startswith(FilaVfmATM(m).txt_upper, TXT_TOTAL)
                        /\ ~FilaVfmATM(m).has_string_date}

\* C25: a stop-row does not change the section: every record carries the section of
\* the last marker row above the row that appended it, stop-rows in between or not.
C25_ParadaConservaSeccion ==
    tipo = "parse_ec_efect_atm_xlsx" =>
        \A k \in 1..Len(registros) :
            MarcadoresEfectATM(origen[k][2]) # {} =>
                registros[k].ING_EGR =
                    (IF FilaVfmATM(Max(MarcadoresEfectATM(origen[k][2]))).txt_upper
                            = TXT_INGRESOS
                     THEN "IN" ELSE "OUT")

\* INGRESOS, a motive line, a TOTAL row and a detail row: the record says OUT
C25_Testigo ==
    /\ tipo = "parse_ec_efect_atm_xlsx"
    /\ doc[1].filas = <<F_INGRESOS, F_MOTIVO, F_TOTAL, F_VFM_DETALLE>>
    /\ i_fila = 4
    /\ Len(registros) = 1
    /\ registros[1].ING_EGR = "OUT"
    /\ ParadasEfectATM(4) = {3}

\* the records no stop-row stands above, below their marker, do carry its section
C25_SeccionSinParada ==
    tipo = "parse_ec_efect_atm_xlsx" =>
        \A k \in 1..Len(registros) :
            LET n == origen[k][2]
            IN  /\ MarcadoresEfectATM(n) # {}
                /\ (\A p \in ParadasEfectATM(n) : p < Max(MarcadoresEfectATM(n)))
                       => registros[k].ING_EGR =
                              (IF FilaVfmATM(Max(MarcadoresEfectATM(n))).txt_upper = TXT_INGRESOS
                               THEN "IN" ELSE "OUT")

\* in get_ec_atm and get_ec_bultos_atm of comsol.py a stop-row leaves the section,
\* and everything else, as it is
C25_ParadaComsol ==
    [][(pc = "filas" /\ i_fila < Len(doc[hoja].filas) /\ Clase(i_fila + 1) = "parada")
           => UNCHANGED <<ing_egr, motivo_actual, registros>>]_vars

\* the row the loop of parse_ec_bultos_atm_xlsx reads next holds the label
SigueEtiquetaVfm ==
    /\ tipo = "parse_ec_bultos_atm_xlsx"
    /\ pc = "filas"
    /\ i_fila < Len(doc[hoja].filas)
    /\ Contiene(FilaVfmATM(i_fila + 1).txt_notna, ETIQUETA_SALDO)

\* C26: a 'Saldo Anterior' label row leaves the section and the motive as they are
\* and appends no record.
C26_EtiquetaConservaSeccion ==
    [][SigueEtiquetaVfm => UNCHANGED <<current_section, current_motivo, started, registros>>]_vars

\* the label row has been read inside the section IN under a motive, and section
\* and motive are gone
C26_Testigo ==
    /\ tipo = "parse_ec_bultos_atm_xlsx"
    /\ doc[1].filas = <<F_INGRESOS, F_MOTIVO, F_SALDO_VFM, F_VFM_DETALLE>>
    /\ i_fila = 4
    /\ current_section = <<>>
    /\ current_motivo = <<>>
    /\ registros = <<>>

\* what holds of that parser: the label row appends no record
C26_EtiquetaSinRegistro ==
    [][SigueEtiquetaVfm => UNCHANGED registros]_vars

\* in get_ec_atm and get_ec_bultos_atm of comsol.py the label row read while no
\* balance is captured changes the balances alone
C26_EtiquetaComsol ==
    [][(pc = "filas" /\ i_fila < Len(doc[hoja].filas)
            /\ Fila(i_fila + 1).line_join # <<>> /\ EsFilaSaldo(Estado, Fila(i_fila + 1)))
           => UNCHANGED <<ing_egr, motivo_actual, registros, agencia, fecha_archivo>>]_vars

\* a label row read by get_ec_atm inside a section under a motive, before any balance
C26_TestigoComsol ==
    /\ tipo = "EC_ATM"
    /\ i_fila = 3
    /\ doc[1].filas[1] = F_INGRESOS /\ doc[1].filas[2] = F_MOTIVO /\ doc[1].filas[3] = F_SALDO
    /\ ing_egr = "IN"
    /\ motivo_actual = C_MOTIVO
    /\ saldo_ant_usd = C_SALDO_1

(***************************************************************************)
(* get_ec_atm of prosegur_unificado_v4_2.py (233-279): the body of the row *)
(* loop, on the parse state of get_ec_atm of comsol.py (the two balances   *)
(* stay empty).                                                            *)
(***************************************************************************)
\* registros.append({...}) (270-271)
v4_RegistroATM(e, L) ==
    [FECHA_OPER |-> CamposATM(L).fecha_oper, SUCURSAL |-> CamposATM(L).sucursal,
     RECIBO |-> CamposATM(L).recibo, BULTOS |-> CamposATM(L).bultos,
     GUARANIES |-> CamposATM(L).guaranies, DOLARES |-> CamposATM(L).dolares,
     ING_EGR |-> e.ing_egr, CLASIFICACION |-> "ATM", FECHA_ARCHIVO |-> e.fecha_archivo,
     MOTIVO_MOVIMIENTO |-> e.motivo_actual,
     AGENCIA |-> IF e.agencia # <<>> THEN e.agencia ELSE agencia_fallback]

\* from the section markers on (252-271)
v4_DesdeMarcadores(e, L, donde) ==
    IF L.upper_join = TXT_INGRESOS THEN AbreSeccion(e, "IN")
    ELSE IF L.upper_join = TXT_EGRESOS THEN AbreSeccion(e, "OUT")
    ELSE IF Contiene(L.upper_join, TXT_INFORME) THEN InformeDeProcesos(e)
    ELSE IF L.totales THEN FilaTotales(e)
    ELSE IF EsMotivo(e, L) THEN CapturaMotivo(e, L)
    ELSE IF EsDetalle(e, L)
         THEN [e EXCEPT !.registros = Append(@, v4_RegistroATM(e, L)),
                        !.origen = Append(@, donde)]
    ELSE e

\* if 'ESTADO DE CUENTA DE' in upper_join: ... if m_f: fecha_archivo = ...; continue
v4_EstadoATM(e, L, donde) ==
    IF Contiene(L.upper_join, TXT_ESTADO) /\ L.m_f # <<>> THEN CapturaFechaArchivo(e, L)
    ELSE v4_DesdeMarcadores(e, L, donde)

v4_get_ec_atm(e, row, donde) ==
    LET L == Lectura[row]
    IN  IF L.line_join = <<>> THEN e
        ELSE IF Contiene(L.upper_join, TXT_PROSEGUR) /\ L.m # <<>> THEN CapturaAgencia(e, L)
        ELSE v4_EstadoATM(e, L, donde)

MaxFilasCabecera == 4

InitCabecera ==
    /\ tipo \in {"EC_ATM", "v4.get_ec_atm"}
    /\ descartar_usd_cero = TRUE
    /\ doc \in {<<[nombre |-> N_HOJA1, filas |-> g]>> :
                    g \in Grillas(FilasCabecera, MaxFilasCabecera)}
    /\ Antes
    /\ SinBanco
    /\ SinInventario
    /\ SinOtros

\* one iteration of "for _, row in df_raw.iterrows()" of that get_ec_atm
FilaATMV4 ==
    /\ tipo = "v4.get_ec_atm"
    /\ pc = "filas"
    /\ i_fila < Len(doc[hoja].filas)
    /\ Asigna(v4_get_ec_atm(Estado, doc[hoja].filas[i_fila + 1], <<hoja, i_fila + 1>>))
    /\ i_fila' = i_fila + 1
    /\ UNCHANGED <<varsOtros, tipo, descartar_usd_cero, doc, hoja, saldo_anterior,
                   moneda_actual, previa, varsInv>>

NextCabecera == FilaATM \/ FilaATMV4

SpecCabecera == InitCabecera /\ [][NextCabecera]_vars

\* the row the loop reads next is an identity row or a statement type/date row
SigueCabecera ==
    /\ pc = "filas"
    /\ i_fila < Len(doc[hoja].filas)
    /\ \/ Contiene(Fila(i_fila + 1).upper_join, TXT_PROSEGUR)
       \/ Contiene(Fila(i_fila + 1).upper_join, TXT_ESTADO)

\* C27: an identity row or a statement type/date row leaves the section and the
\* motive as they are and appends no record, whether the sucursal or the date is
\* found in it or not.
C27_CabeceraConservaEstado ==
    [][SigueCabecera => UNCHANGED <<ing_egr, motivo_actual, registros>>]_vars

\* an identity row without a sucursal read inside a section by get_ec_atm of
\* prosegur_unificado_v4_2.py: the record below it has it as its motive
C27_Testigo ==
    /\ tipo = "v4.get_ec_atm"
    /\ doc[1].filas = <<F_INGRESOS, F_MOTIVO_DEP, F_IDENT_SIN, F_DETALLE>>
    /\ i_fila = 4
    /\ Len(registros) = 1
    /\ registros[1].MOTIVO_MOVIMIENTO = C_IDENT_SIN

\* get_ec_atm of comsol.py does as the claim says
C27_CabeceraComsol ==
    [][(tipo = "EC_ATM" /\ SigueCabecera) => UNCHANGED <<ing_egr, motivo_actual, registros>>]_vars

\* both parsers do when the sucursal or the date is found
C27_CabeceraHallada ==
    [][(SigueCabecera /\ (Fila(i_fila + 1).m # <<>> \/ Fila(i_fila + 1).m_f # <<>>))
           => UNCHANGED <<ing_egr, motivo_actual, registros>>]_vars

\* the text of row n holds the word INGRESOS or EGRESOS and more than that word
MarcadorEnTextoLargo(txt) ==
    /\ Contiene(txt, TXT_INGRESOS) \/ Contiene(txt, TXT_EGRESOS)
    /\ strip(txt) \notin {TXT_INGRESOS, TXT_EGRESOS}

\* C28: a row that holds the word INGRESOS or EGRESOS inside a longer text leaves
\* the section as it is; only a row that is exactly the marker changes it.
C28_SoloMarcadorExacto ==
    [][(tipo = "parse_ec_bultos_atm_xlsx" /\ pc = "filas" /\ i_fila < Len(doc[hoja].filas)
            /\ MarcadorEnTextoLargo(FilaVfmATM(i_fila + 1).txt_notna))
           => UNCHANGED <<current_section, started>>]_vars

\* parse_ec_bultos_atm_xlsx has read EGRESOS, a motive, a line 'Total Ingresos' and a
\* detail row: the record says IN
C28_Testigo ==
    /\ tipo = "parse_ec_bultos_atm_xlsx"
    /\ doc[1].filas = <<F_EGRESOS, F_MOTIVO, F_TOTAL_INGRESOS, F_VFM_DETALLE>>
    /\ i_fila = 4
    /\ current_section = TXT_INGRESOS
    /\ Len(registros) = 1
    /\ registros[1].ING_EGR = "IN"

\* the two get_ec_atm, of comsol.py and of prosegur_unificado_v4_2.py, compare the
\* whole text of the row: such a row leaves their section as it is
C28_MarcadorExactoComsol ==
    [][(pc = "filas" /\ i_fila < Len(doc[hoja].filas)
            /\ MarcadorEnTextoLargo(Fila(i_fila + 1).upper_join))
           => UNCHANGED ing_egr]_vars

\* get_ec_atm of comsol.py has read the marker EGRESOS and then the line 'Total Ingresos'
C28_TestigoComsol ==
    /\ tipo = "EC_ATM"
    /\ i_fila = 2
    /\ doc[1].filas[1] = F_EGRESOS
    /\ doc[1].filas[2] = F_TOTAL_INGRESOS
    /\ ing_egr = "OUT"

(***************************************************************************)
(* The bank statement and bank bulk-goods parsers on a sheet of marker,    *)
(* motive line and detail rows: get_ec_banco and get_ec_bultos_bco of      *)
(* comsol.py next to get_ec_banco of prosegur_unificado_v4_2.py.           *)
(***************************************************************************)
MaxFilasMotivoBco == 3

FilasMotivoBco == {F_INGRESOS, F_MOTIVO, F_DETALLE_BCO, F_INFORME, F_ESTADO_BCO}

InitMotivoBco ==
    /\ tipo \in {"EC_BANCO", "EC_BULTOS_BCO", "v4.get_ec_banco"}
    /\ descartar_usd_cero = TRUE
    /\ doc \in {<<[nombre |-> n, filas |-> g]>> :
                    n \in NombresHoja, g \in Grillas(FilasMotivoBco, MaxFilasMotivoBco)}
    /\ agencia = <<>>
    /\ fecha_archivo = <<>>
    /\ ing_egr = ""
    /\ motivo_actual = <<>>
    /\ saldo_anterior = <<>>
    /\ moneda_actual = <<>>
    /\ saldo_ant_usd = <<>>
    /\ saldo_ant_pyg = <<>>
    /\ registros = <<>>
    /\ origen = <<>>
    /\ previa = <<>>
    /\ hoja = 0
    /\ i_fila = 0
    /\ pc = "hojas"
    /\ SinInventario
    /\ SinOtros

NextMotivoBco == HojaBanco \/ HojaBultosBco \/ FilaBanco \/ FilaBultosBco \/ HojaBancoV4 \/ FilaBancoV4

SpecMotivoBco == InitMotivoBco /\ [][NextMotivoBco]_vars

\* the sheet begins with a section marker and a line of bare text
MarcadorYMotivo ==
    /\ hoja = 1
    /\ Len(doc[1].filas) >= 2
    /\ doc[1].filas[1] = F_INGRESOS
    /\ doc[1].filas[2] = F_MOTIVO

\* the line of bare text has been read as the motive, and a detail row read after it
\* has given one record with that motive
MotivoLeido ==
    /\ i_fila = 2 => motivo_actual = C_MOTIVO
    /\ (i_fila = 3 /\ doc[1].filas[3] = F_DETALLE_BCO)
           => /\ Len(registros) = 1
              /\ registros[1].MOTIVO_MOVIMIENTO = C_MOTIVO

\* C29: in get_ec_banco and get_ec_bultos_bco of comsol.py a row without a date inside
\* a section becomes the current motive, so a section marker, a line of bare text and
\* a detail row that begins with a date and holds a receipt number give one record
\* that carries the text as its motive
C29_FilaSinFechaEsMotivo ==
    (tipo \in {"EC_BANCO", "EC_BULTOS_BCO"} /\ MarcadorYMotivo /\ i_fila >= 2) => MotivoLeido

\* get_ec_banco of comsol.py has read the marker, the line 'Depósito' and the detail
\* row: no motive was kept and no record was written
C29_Testigo ==
    /\ tipo = "EC_BANCO"
    /\ MarcadorYMotivo
    /\ i_fila = 3
    /\ doc[1].filas[3] = F_DETALLE_BCO
    /\ ing_egr = "IN"
    /\ motivo_actual = <<>>
    /\ registros = <<>>

\* get_ec_banco of prosegur_unificado_v4_2.py does what the sentence says
C29_MotivoV4 ==
    (tipo = "v4.get_ec_banco" /\ MarcadorYMotivo /\ i_fila >= 2) => MotivoLeido

C29_TestigoV4 ==
    /\ tipo = "v4.get_ec_banco"
    /\ MarcadorYMotivo
    /\ i_fila = 3
    /\ doc[1].filas[3] = F_DETALLE_BCO
    /\ Len(registros) = 1
    /\ registros[1].MOTIVO_MOVIMIENTO = C_MOTIVO

\* in the two parsers of comsol.py the motive is empty at every point of every scan
C29_MotivoSiempreVacio ==
    tipo \in {"EC_BANCO", "EC_BULTOS_BCO"} => motivo_actual = <<>> /\ registros = <<>>

(***************************************************************************)
(* The start bound of the inventory block.                                 *)
(***************************************************************************)
\* the first row above the end bound that holds a cell reading exactly USD or PYG
\* has been taken as the start bound
InicioEnPrimeraDivisa ==
    LET df == doc[hoja].filas
        d == buscar_inicio_por_divisa(df, buscar_fin_y_codigo(df)[1])
    IN  d # None => row_start = d

\* C30: in get_inv_atm of prosegur_unificado_v4_2.py the start bound is the first row
\* before the end bound that holds a bare USD or PYG cell, wherever that row stands,
\* the first row of the sheet (row index 0) included
C30_InicioPorDivisa ==
    (variante = "v4_2" /\ pc # "localiza") => InicioEnPrimeraDivisa

\* the first row of the sheet is the USD row and a classified row stands two rows
\* below it: the block was started at the classified row
C30_Testigo ==
    /\ variante = "v4_2"
    /\ pc # "localiza"
    /\ Len(doc[hoja].filas) >= 4
    /\ doc[hoja].filas[1] = F_DIVISA
    /\ doc[hoja].filas[2] = F_TITULO
    /\ doc[hoja].filas[3] = F_CLASIFICADA
    /\ doc[hoja].filas[4] = F_FIN
    /\ row_start = 3
    /\ row_end = 4

\* the first row is the USD row and no row reads as grouping and denomination: no
\* start bound, the sheet is left out
C30_TestigoOmitida ==
    /\ variante = "v4_2"
    /\ doc[hoja].filas = <<F_DIVISA, F_NUM, F_FIN>>
    /\ pc = "omitida"
    /\ row_start = None

\* at every other position of the USD or PYG row the start bound is that row
C30_InicioPorDivisaDesdeLaSegunda ==
    (variante = "v4_2" /\ pc # "localiza" /\ doc[hoja].filas # <<>>
        /\ doc[hoja].filas[1] # F_DIVISA) => InicioEnPrimeraDivisa

C30_TestigoSegunda ==
    /\ variante = "v4_2"
    /\ pc = "filas"
    /\ Len(doc[hoja].filas) >= 3
    /\ doc[hoja].filas[1] = F_CLASIFICADA
    /\ doc[hoja].filas[2] = F_DIVISA
    /\ row_start = 2

\* get_inv_atm of Consolidado_mejorado.py tests the result against None
C30_InicioPorDivisaCM ==
    (variante = "Consolidado_mejorado" /\ pc # "localiza") => InicioEnPrimeraDivisa

C30_TestigoCM ==
    /\ variante = "Consolidado_mejorado"
    /\ pc = "filas"
    /\ doc[hoja].filas[1] = F_DIVISA
    /\ row_start = 1
    /\ i_fila = 1

(***************************************************************************)
(* get_inv_bco of Consolidado_mejorado.py: the bank inventory, whose block *)
(* may begin below a header row.                                           *)
(***************************************************************************)
AGRUP_TOKENS_BCO == <<<<"T","E","S","O","R","O"," ","E","F","E","C","T","I","V","O">>, <<"F","A","J","O","S"," ","E","F","E","C","T","I","V","O","S">>, <<"P","I","C","O","S"," ","E","F","E","C","T","I","V","O">>>>
TIPO_TOKENS_BCO ==
    <<<<"B","I","L","L","E","T","E","S"," ","(","L","A","D","R","I","L","L","O","S",")">>, <<"M","O","N","E","D","A","S"," ","(","B","O","L","S","A","S",")">>, <<"M","O","N","E","D","A","S"," ","(","P","A","Q","U","E","T","E","S",")">>, <<"B","I","L","L","E","T","E","S">>, <<"M","O","N","E","D","A","S">>>>
MON_DOLARES_INV == <<"D","O","L","A","R","E","S">>
MON_GUARANIES_INV == <<"G","U","A","R","A","N","I","E","S">>

\* normaliza_divisa_code of get_inv_bco
normaliza_divisa_code_bco(code_upper) ==
    LET up == upper(code_upper)
    IN  IF Contiene(up, ISO_USD) THEN MON_DOLARES_INV
        ELSE IF Contiene(up, ISO_PYG) \/ Contiene(_strip_accents(up), TXT_GUARANI)
             THEN MON_GUARANIES_INV
        ELSE up

CAB_DIVISA == <<"D","I","V","I","S","A">>
CAB_DENOM == <<"D","E","N","O","M">>
CAB_CJE == <<"C","J","E","/","D","E","P">>
CAB_IMPORTE == <<"I","M","P","O","R","T","E">>

\* buscar_inicio_por_cabecera: the row after the first header row of the sheet,
\* wherever the end bound is (row_end is not read)
buscar_inicio_por_cabecera(df) ==
    LET c == {i \in 1..Len(df) :
                  /\ Contiene(LecturaInv[df[i]].row_up, CAB_DIVISA)
                  /\ Contiene(LecturaInv[df[i]].row_up, CAB_DENOM)
                  /\ Contiene(LecturaInv[df[i]].row_up, CAB_CJE)
                  /\ Contiene(LecturaInv[df[i]].row_up, CAB_IMPORTE)}
    IN  IF c = {} THEN None ELSE Min(c) + 1

\* buscar_inicio_fallback of get_inv_bco
buscar_inicio_fallback_bco(df, fin) ==
    LET c == {i \in 1..(fin - 1) :
                  /\ LecturaInv[df[i]].nums # <<>>
                  /\ PrimerToken(AGRUP_TOKENS_BCO,
                                 left_up(df[i], LecturaInv[df[i]].nums[1])) # <<>>}
    IN  IF c = {} THEN None ELSE Min(c)

\* the first of the three results that is not None
PrimeroNoNone(a, b, c) == IF a # None THEN a ELSE IF b # None THEN b ELSE c

\* localiza_bloque with the currency row asked first
localiza_bloque_bco_divisa_primero(df) ==
    LET f == buscar_fin_y_codigo(df)
    IN  <<PrimeroNoNone(buscar_inicio_por_divisa(df, f[1]), buscar_inicio_por_cabecera(df),
                        buscar_inicio_fallback_bco(df, f[1])),
          f[1], f[2]>>

\* localiza_bloque of get_inv_bco: <<row_start, row_end, moneda_codigo>>
localiza_bloque_bco(df) ==
    LET f == buscar_fin_y_codigo(df)
    IN  <<PrimeroNoNone(buscar_inicio_por_cabecera(df), buscar_inicio_por_divisa(df, f[1]),
                        buscar_inicio_fallback_bco(df, f[1])),
          f[1], f[2]>>

\* cur_divisa = normaliza_divisa_code("USD") / normaliza_divisa_code("PYG")
ActualizaDivisaBco(e, L) ==
    [e EXCEPT !.cur_divisa = IF Esta(L.ups, ISO_USD) THEN normaliza_divisa_code_bco(ISO_USD)
                             ELSE IF Esta(L.ups, ISO_PYG) THEN normaliza_divisa_code_bco(ISO_PYG)
                             ELSE @]

\* detectar_agrup_y_tipo of get_inv_bco and the two assignments after it
ClasificaBco(e, izquierda) ==
    LET t == PrimerToken(TIPO_TOKENS_BCO, izquierda)
        a == PrimerToken(AGRUP_TOKENS_BCO, izquierda)
    IN  [e EXCEPT !.cur_tipo = IF t # <<>> THEN t[1] ELSE @,
                  !.cur_agrup = IF a # <<>> THEN a[1] ELSE @]

\* "DIVISA": cur_divisa or "GUARANIES"
RegistroInvBco(e, row, denom_col, denom_val) ==
    [RegistroInv(e, row, denom_col, denom_val)
        EXCEPT !.DIVISA = IF e.cur_divisa # <<>> THEN e.cur_divisa ELSE MON_GUARANIES_INV]

\* the body of the row loop of parsea_cuerpo of get_inv_bco
fila_bco(e, row, donde) ==
    LET L == LecturaInv[row]
        e1 == ActualizaDivisaBco(e, L)
    IN  IF L.es_stop THEN e
        ELSE IF L.nums = <<>> THEN e1
        ELSE LET denom_col == L.nums[1]
                 e2 == ClasificaBco(e1, left_up(row, denom_col))
                 reg == RegistroInvBco(e2, row, denom_col, _to_int(row[denom_col])[1])
             IN  IF include_zeros \/ reg.DEPOSITO # 0 \/ reg.CJE_DEP # 0 \/ reg.CANJE # 0
                        \/ reg.MONEDA # 0 \/ reg.IMPORTE_TOTAL # 0
                 THEN AnotaInv(e2, reg, donde, denom_col)
                 ELSE e2

MaxFilasInvBco == 4

InitInvBco ==
    /\ tipo = "INV_BCO"
    /\ variante = "get_inv_bco"
    /\ descartar_usd_cero = TRUE
    /\ doc \in {<<[nombre |-> N_HOJA1, filas |-> g]>> : g \in Grillas(FilasInvBco, MaxFilasInvBco)}
    /\ hoja = 1
    /\ i_fila = 0
    /\ pc = "localiza"
    /\ row_start = None
    /\ row_end = None
    /\ cur_divisa = <<>>
    /\ cur_agrup = <<>>
    /\ cur_tipo = <<>>
    /\ registros = <<>>
    /\ origen = <<>>
    /\ denom_cols = <<>>
    /\ agencia = <<>>
    /\ fecha_archivo = <<>>
    /\ ing_egr = ""
    /\ motivo_actual = <<>>
    /\ saldo_ant_usd = <<>>
    /\ saldo_ant_pyg = <<>>
    /\ SinBanco
    /\ SinOtros

\* lim = localiza_bloque(df) of get_inv_bco
LocalizaInvBco ==
    /\ variante = "get_inv_bco"
    /\ LET lim == localiza_bloque_bco(doc[hoja].filas)
       IN  Localiza(lim, normaliza_divisa_code_bco(IF lim[3] # <<>> THEN lim[3][1] ELSE <<>>))

\* one iteration of "for i in range(row_start, row_end)" of get_inv_bco
FilaInvBco ==
    /\ variante = "get_inv_bco"
    /\ pc = "filas"
    /\ i_fila + 1 < row_end
    /\ Camina(fila_bco(EstadoInv, doc[hoja].filas[i_fila + 1], <<hoja, i_fila + 1>>))

NextInvBco == LocalizaInvBco \/ FilaInvBco

SpecInvBco == InitInvBco /\ [][NextInvBco]_vars

\* the three searches of the sheet being read
DivisaHallada == buscar_inicio_por_divisa(doc[hoja].filas, buscar_fin_y_codigo(doc[hoja].filas)[1])
CabeceraHallada == buscar_inicio_por_cabecera(doc[hoja].filas)
FallbackHallado ==
    buscar_inicio_fallback_bco(doc[hoja].filas, buscar_fin_y_codigo(doc[hoja].filas)[1])

\* C31 as stated: in get_inv_bco the start bound is the first row with a bare USD or
\* PYG cell before the end bound; the header row decides only when there is no such
\* row, and the grouping-keyword fallback only when neither of the two finds a row
C31_DivisaPrimero ==
    (variante = "get_inv_bco" /\ pc # "localiza") =>
        row_start = PrimeroNoNone(DivisaHallada, CabeceraHallada, FallbackHallado)

\* C31: in get_inv_bco the start bound is the row after the first header row; the first
\* row with a bare USD or PYG cell before the end bound decides only when the sheet
\* has no header row, and the grouping-keyword fallback only when neither of the
\* two finds a row
C31_CabeceraPrimero ==
    (variante = "get_inv_bco" /\ pc # "localiza") =>
        /\ CabeceraHallada # None => row_start = CabeceraHallada
        /\ (CabeceraHallada = None /\ DivisaHallada # None) => row_start = DivisaHallada
        /\ (CabeceraHallada = None /\ DivisaHallada = None) => row_start = FallbackHallado

\* the USD row stands above the header row: the block begins below the header row
C31_Testigo ==
    /\ variante = "get_inv_bco"
    /\ doc[hoja].filas = <<F_DIVISA, F_CABECERA, F_CLASIFICADA_BCO, F_FIN>>
    /\ pc = "filas"
    /\ row_start = 3
    /\ row_end = 4
    /\ i_fila = 3
    /\ Len(registros) = 1

\* no header row and a USD row: the block begins at the USD row
C31_TestigoDivisa ==
    /\ variante = "get_inv_bco"
    /\ doc[hoja].filas = <<F_TITULO, F_DIVISA, F_CLASIFICADA_BCO, F_FIN>>
    /\ pc = "filas"
    /\ row_start = 2

\* neither: the block begins at the first row with a grouping word left of a number
C31_TestigoFallback ==
    /\ variante = "get_inv_bco"
    /\ doc[hoja].filas = <<F_TITULO, F_NUM, F_CLASIFICADA_BCO, F_FIN>>
    /\ pc = "filas"
    /\ row_start = 3

(***************************************************************************)
(* The rows the inventory lines come from.                                 *)
(***************************************************************************)
\* the first row of the sheet whose text holds 'TOTAL DE LA MONEDA', one past the last
\* row when there is none
PrimeraFilaFin ==
    LET c == {i \in 1..Len(doc[hoja].filas) : LecturaInv[doc[hoja].filas[i]].es_fin}
    IN  IF c = {} THEN Len(doc[hoja].filas) + 1 ELSE Min(c)

\* C32: no inventory line comes from a row at or after the first row that contains
\* 'TOTAL DE LA MONEDA' (the end bound is exclusive), nor from a row before the start
\* bound
C32_SoloDentroDelBloque ==
    \A k \in 1..Len(origen) :
        /\ origen[k][2] < PrimeraFilaFin
        /\ row_start # None
        /\ row_start <= origen[k][2]

\* a classified row above the USD row and another below the end row, both left out;
\* the one line comes from the classified row between the bounds
C32_Testigo ==
    /\ variante = "v4_2"
    /\ doc[hoja].filas = <<F_CLASIFICADA, F_DIVISA, F_CLASIFICADA, F_FIN, F_CLASIFICADA>>
    /\ pc = "filas"
    /\ row_start = 2
    /\ row_end = 4
    /\ i_fila = 3
    /\ Len(registros) = 1
    /\ origen[1][2] = 3

(***************************************************************************)
(* The five values right of the denomination.                              *)
(***************************************************************************)
MaxFilasValores == 3

InitValores ==
    /\ tipo = "INV_ATM"
    /\ variante \in {"v4_2", "Consolidado_mejorado"}
    /\ descartar_usd_cero = TRUE
    /\ doc \in {<<[nombre |-> N_HOJA1, filas |-> g]>> : g \in Grillas(FilasValores, MaxFilasValores)}
    /\ hoja = 1
    /\ i_fila = 0
    /\ pc = "localiza"
    /\ row_start = None
    /\ row_end = None
    /\ cur_divisa = <<>>
    /\ cur_agrup = <<>>
    /\ cur_tipo = <<>>
    /\ registros = <<>>
    /\ origen = <<>>
    /\ denom_cols = <<>>
    /\ agencia = <<>>
    /\ fecha_archivo = <<>>
    /\ ing_egr = ""
    /\ motivo_actual = <<>>
    /\ saldo_ant_usd = <<>>
    /\ saldo_ant_pyg = <<>>
    /\ SinBanco
    /\ SinOtros

SpecValores == InitValores /\ [][NextInv]_vars

\* the columns right of the denomination of the k-th line whose cell reads as a number
\* (_to_int), left to right
NumericasALaDerecha(k) ==
    LET row == FilaInv(denom_cols[k][1])
    IN  SelectSeq([j \in 1..Len(row) |-> j],
                  LAMBDA j : j > denom_cols[k][2] /\ _to_int(row[j]) # <<>>)

\* the n-th number right of the denomination of the k-th line, 0 when there is none
ValorALaDerecha(k, n) ==
    IF n <= Len(NumericasALaDerecha(k))
    THEN _to_int(FilaInv(denom_cols[k][1])[NumericasALaDerecha(k)[n]])[1]
    ELSE 0

\* the classified rows walked so far
ClasificadasLeidas ==
    {n \in 1..Len(doc[hoja].filas) :
        /\ pc = "filas"
        /\ row_start <= n
        /\ n <= i_fila
        /\ FilaInv(n) \in {F_CLASIFICADA, F_CORTA, F_CON_HORA}}

\* C33: the five quantity and amount values of every inventory line are, in order, the
\* first five numeric cells strictly right of the denomination cell, with 0 for each
\* one that is missing; an accepted row gives exactly one line
C33_CincoValores ==
    /\ \A k \in 1..Len(registros) :
           /\ registros[k].DEPOSITO = ValorALaDerecha(k, 1)
           /\ registros[k].CJE_DEP = ValorALaDerecha(k, 2)
           /\ registros[k].CANJE = ValorALaDerecha(k, 3)
           /\ registros[k].MONEDA = ValorALaDerecha(k, 4)
           /\ registros[k].IMPORTE_TOTAL = ValorALaDerecha(k, 5)
    /\ \A n \in 1..Len(doc[hoja].filas) : Cardinality(Emitidos(n)) <= 1
    /\ \A n \in ClasificadasLeidas : Cardinality(Emitidos(n)) = 1

\* the row with two numbers right of the denomination has given one line: 12, 600000
\* and three zeros
C33_Testigo ==
    /\ variante = "v4_2"
    /\ Len(registros) >= 1
    /\ FilaInv(origen[1][2]) = F_CORTA
    /\ registros[1].DEPOSITO = 12
    /\ registros[1].CJE_DEP = 600000
    /\ registros[1].CANJE = 0
    /\ registros[1].MONEDA = 0
    /\ registros[1].IMPORTE_TOTAL = 0

\* the cells the five values of the k-th line were read from: the first five numeric
\* cells right of its denomination
CeldasDeValores(k) ==
    {FilaInv(denom_cols[k][1])[NumericasALaDerecha(k)[n]] :
        n \in 1..(IF Len(NumericasALaDerecha(k)) < 5 THEN Len(NumericasALaDerecha(k)) ELSE 5)}

\* C34: in the inventory row walk of prosegur_unificado_v4_2.py a cell that contains
\* ':' or '/' (a clock time or a date) is never read as one of the five quantity and
\* amount values right of the denomination
C34_ValoresSinHoraNiFecha ==
    variante = "v4_2" =>
        \A k \in 1..Len(registros) :
            \A c \in CeldasDeValores(k) : ~Esta(c, ":") /\ ~Esta(c, "/")

\* the row [Tesoro ATM, Billetes, 50000, 6:28, 12, 23/10/2025, 600000] has given a
\* line with DEPOSITO 628 and CANJE 23102025
C34_Testigo ==
    /\ variante = "v4_2"
    /\ Len(registros) >= 1
    /\ FilaInv(origen[1][2]) = F_CON_HORA
    /\ registros[1].DENOMINACION = 50000
    /\ registros[1].DEPOSITO = 628
    /\ registros[1].CJE_DEP = 12
    /\ registros[1].CANJE = 23102025
    /\ registros[1].MONEDA = 600000
    /\ registros[1].IMPORTE_TOTAL = 0

(***************************************************************************)
(* The sticky currency of the inventory row walk.                          *)
(***************************************************************************)
MaxFilasDivisa == 4

InitDivisa ==
    /\ tipo = "INV_ATM"
    /\ variante \in {"v4_2", "Consolidado_mejorado"}
    /\ descartar_usd_cero = TRUE
    /\ doc \in {<<[nombre |-> N_HOJA1, filas |-> g]>> : g \in Grillas(FilasDivisa, MaxFilasDivisa)}
    /\ hoja = 1
    /\ i_fila = 0
    /\ pc = "localiza"
    /\ row_start = None
    /\ row_end = None
    /\ cur_divisa = <<>>
    /\ cur_agrup = <<>>
    /\ cur_tipo = <<>>
    /\ registros = <<>>
    /\ origen = <<>>
    /\ denom_cols = <<>>
    /\ agencia = <<>>
    /\ fecha_archivo = <<>>
    /\ ing_egr = ""
    /\ motivo_actual = <<>>
    /\ saldo_ant_usd = <<>>
    /\ saldo_ant_pyg = <<>>
    /\ SinBanco
    /\ SinOtros

SpecDivisa == InitDivisa /\ [][NextInv]_vars

\* the rows of the block, from the start bound to row n, that are no stop row and
\* hold a cell that reads exactly USD or PYG
FilasConDivisa(n) ==
    {i \in row_start..n :
        /\ ~LecturaInv[FilaInv(i)].es_stop
        /\ Esta(LecturaInv[FilaInv(i)].ups, ISO_USD) \/ Esta(LecturaInv[FilaInv(i)].ups, ISO_PYG)}

\* the token of such a row
DivisaDeFila(i) == IF Esta(LecturaInv[FilaInv(i)].ups, ISO_USD) THEN ISO_USD ELSE ISO_PYG

\* the code captured from the end row of the sheet: <<>> or <<code>>
CodigoDelFin ==
    LET c == {i \in 1..Len(doc[hoja].filas) : LecturaInv[FilaInv(i)].es_fin}
    IN  IF c = {} THEN <<>> ELSE LecturaInv[FilaInv(Min(c))].code

\* C35: the DIVISA of every inventory line is the most recent bare USD or PYG token
\* seen in a row of the block that is no stop row, at or before the row of the line;
\* when no such token was seen it is the three-letter code captured from the end row;
\* it stays in force for the rows that follow until another token row is read
C35_DivisaPegajosa ==
    \A k \in 1..Len(registros) :
        LET n == origen[k][2]
        IN  /\ FilasConDivisa(n) # {} => registros[k].DIVISA = DivisaDeFila(Max(FilasConDivisa(n)))
            /\ (FilasConDivisa(n) = {} /\ CodigoDelFin # <<>>)
                   => registros[k].DIVISA = CodigoDelFin[1]

\* a PYG row, a line, a USD row, a line: the
\* first line says PYG and the second USD
C35_Testigo ==
    /\ variante = "v4_2"
    /\ doc[hoja].filas = <<F_DIVISA_PYG, F_CLASIFICADA, F_DIVISA, F_CLASIFICADA>>
    /\ Len(registros) = 2
    /\ registros[1].DIVISA = ISO_PYG
    /\ registros[2].DIVISA = ISO_USD

\* the only USD cell of the block stands in a subtotal row, which is skipped: the line
\* below it carries the code of the end row
C35_TestigoCodigo ==
    /\ variante = "v4_2"
    /\ doc[hoja].filas = <<F_CLASIFICADA, F_SUBTOTAL_USD, F_CLASIFICADA, F_FIN_EUR>>
    /\ row_start = 2
    /\ Len(registros) = 1
    /\ origen[1][2] = 3
    /\ registros[1].DIVISA = <<"E", "U", "R">>

\* no token row and no code: the line says PYG
C35_SinCodigo ==
    \A k \in 1..Len(registros) :
        (variante = "v4_2" /\ FilasConDivisa(origen[k][2]) = {} /\ CodigoDelFin = <<>>)
            => registros[k].DIVISA = ISO_PYG

(***************************************************************************)
(* A workbook whose first sheet may hold the terminal marker, read by the  *)
(* bank parsers.                                                           *)
(***************************************************************************)
MaxFilasTerminal == 2

FilasTerminal == {F_INFORME, F_INGRESOS, F_MOTIVO, F_DETALLE_BCO}

\* the second sheet: nothing, or a section of one motive and one detail row, whole or
\* cut short
SegundasHojas ==
    {<<>>, <<F_INGRESOS>>, <<F_INGRESOS, F_MOTIVO>>, <<F_INGRESOS, F_MOTIVO, F_DETALLE_BCO>>,
     <<F_DETALLE_BCO>>}

InitTerminal ==
    /\ tipo \in {"EC_BANCO", "EC_BULTOS_BCO", "v4.get_ec_banco"}
    /\ descartar_usd_cero = TRUE
    /\ doc \in {<<[nombre |-> N_HOJA1, filas |-> g], [nombre |-> n, filas |-> s]>> :
                    g \in Grillas(FilasTerminal, MaxFilasTerminal), n \in NombresHoja,
                    s \in SegundasHojas}
    /\ agencia = <<>>
    /\ fecha_archivo = <<>>
    /\ ing_egr = ""
    /\ motivo_actual = <<>>
    /\ saldo_anterior = <<>>
    /\ moneda_actual = <<>>
    /\ saldo_ant_usd = <<>>
    /\ saldo_ant_pyg = <<>>
    /\ registros = <<>>
    /\ origen = <<>>
    /\ previa = <<>>
    /\ hoja = 0
    /\ i_fila = 0
    /\ pc = "hojas"
    /\ SinInventario
    /\ SinOtros

SpecTerminal == InitTerminal /\ [][NextMotivoBco]_vars

\* the scan of the first sheet was stopped by the terminal marker, rows of it left
\* unread or not, and the second sheet is being scanned
TrasMarcadorTerminal ==
    /\ hoja = 2
    /\ \E i \in 1..Len(doc[1].filas) : doc[1].filas[i] = F_INFORME

\* the second sheet is begun with no section and no motive, its rows are read, and
\* its section of one motive and one detail row has given a record
SegundaHojaLeida ==
    /\ i_fila = 0 => (pc = "filas" /\ ing_egr = "" /\ motivo_actual = <<>>)
    /\ (i_fila >= 1 /\ doc[2].filas[1] = F_INGRESOS) => ing_egr = "IN"
    /\ (i_fila = 3 /\ doc[2].filas = <<F_INGRESOS, F_MOTIVO, F_DETALLE_BCO>>)
           => Len(DeHoja(2)) = 1

\* C36: in get_ec_banco of comsol.py a terminal marker stops the scan of its own sheet
\* only: the rows of every later sheet of the workbook are still scanned, from a fresh
\* state, and can give records
C36_MarcadorSoloSuHoja ==
    (tipo \in {"EC_BANCO", "EC_BULTOS_BCO"} /\ TrasMarcadorTerminal) => SegundaHojaLeida

\* the first sheet ended at its terminal marker, the second sheet was read to its end
\* inside the section it opened, and the workbook has given no record
C36_Testigo ==
    /\ tipo = "EC_BANCO"
    /\ TrasMarcadorTerminal
    /\ doc[1].filas[1] = F_INFORME
    /\ doc[2].filas = <<F_INGRESOS, F_MOTIVO, F_DETALLE_BCO>>
    /\ i_fila = 3
    /\ ing_egr = "IN"
    /\ registros = <<>>

\* the scan itself goes on in the second sheet from a fresh state
C36_SegundaHojaRecorrida ==
    (tipo \in {"EC_BANCO", "EC_BULTOS_BCO"} /\ TrasMarcadorTerminal) =>
        /\ i_fila = 0 => (pc = "filas" /\ ing_egr = "" /\ motivo_actual = <<>>)
        /\ (i_fila >= 1 /\ doc[2].filas[1] = F_INGRESOS) => ing_egr = "IN"

\* get_ec_banco of prosegur_unificado_v4_2.py does all the sentence says
C36_MarcadorSoloSuHojaV4 ==
    (tipo = "v4.get_ec_banco" /\ TrasMarcadorTerminal) => SegundaHojaLeida

C36_TestigoV4 ==
    /\ tipo = "v4.get_ec_banco"
    /\ TrasMarcadorTerminal
    /\ doc[1].filas = <<F_INFORME, F_DETALLE_BCO>>
    /\ doc[2].filas = <<F_INGRESOS, F_MOTIVO, F_DETALLE_BCO>>
    /\ i_fila = 3
    /\ Len(registros) = 1
    /\ origen[1] = <<2, 3>>

(***************************************************************************)
(* The opening balance written into the records of a sheet.                *)
(***************************************************************************)
\* C37: all records of a sheet carry the same opening balance values, those captured
\* from the 'Saldo Anterior' row of the sheet, the records of rows that stand above
\* the label row included
C37_SaldoEnTodosLosRegistros ==
    (tipo = "EC_ATM" /\ (saldo_ant_usd # <<>> \/ saldo_ant_pyg # <<>>)) =>
        \A k \in 1..Len(registros) :
            /\ registros[k].SALDO_ANTERIOR_USD = saldo_ant_usd
            /\ registros[k].SALDO_ANTERIOR_PYG = saldo_ant_pyg

\* a detail row above the label row: its record was written with no balance, and
\* the balance was captured after it
C37_Testigo ==
    /\ tipo = "EC_ATM"
    /\ doc[1].filas = <<F_INGRESOS, F_MOTIVO, F_DETALLE, F_SALDO>>
    /\ i_fila = 4
    /\ Len(registros) = 1
    /\ registros[1].SALDO_ANTERIOR_USD = <<>>
    /\ registros[1].SALDO_ANTERIOR_PYG = <<>>
    /\ saldo_ant_usd # <<>>
    /\ saldo_ant_pyg # <<>>

\* the records of the rows below the label row carry the captured values
C37_SaldoTrasLaEtiqueta ==
    (tipo = "EC_ATM" /\ (saldo_ant_usd # <<>> \/ saldo_ant_pyg # <<>>)) =>
        \A k \in 1..Len(registros) :
            (\E a \in 1..(origen[k][2] - 1) : DaSaldo(a) /\ ~SaldoDadoAntes(a))
                => /\ registros[k].SALDO_ANTERIOR_USD = saldo_ant_usd
                   /\ registros[k].SALDO_ANTERIOR_PYG = saldo_ant_pyg

C37_TestigoTrasLaEtiqueta ==
    /\ tipo = "EC_ATM"
    /\ doc[1].filas = <<F_SALDO, F_INGRESOS, F_MOTIVO, F_DETALLE>>
    /\ i_fila = 4
    /\ Len(registros) = 1
    /\ registros[1].SALDO_ANTERIOR_PYG = saldo_ant_pyg
    /\ saldo_ant_pyg # <<>>


(***************************************************************************)
(* procte.py: the upload run.  args is what the run finds (the folder of   *)
(* the date and the files in it), ret is what it has done so far (the      *)
(* tables it called crea_tabla on, the tables filled, the notifications    *)
(* handed to the mail module), pc_fn its position: "entrada" before the    *)
(* check of the files, "cargas" from the try block on, "salida" at the     *)
(* return.                                                                 *)
(***************************************************************************)
\* posibles_nombres of buscar_log
posibles_nombres == <<"BRITIMP_LOG.txt", "BRITIMP_log.txt">>

\* the values of esperados, in the order of the dict (checkea_archivos_creados)
ESPERADOS ==
    <<"BRITIMP_EFECTBANCO.csv", "BRITIMP_EFECTATM.csv", "BRITIMP_INVENTARIO_BANCO.csv",
      "BRITIMP_INVENTARIO_ATM.csv", "BRITIMP_BULTOS_ATM.csv">>

\* the five loads of run, in the order of the try block: the file each one reads and
\* the table it appends to
CARGAS ==
    <<[archivo |-> "BRITIMP_EFECTBANCO.csv", tabla |-> "PLXS_EC_BCO_BRITIMP_2025"],
      [archivo |-> "BRITIMP_INVENTARIO_BANCO.csv", tabla |-> "PLXS_BRITIMP_INV_BILLETES_BANCO_2025"],
      [archivo |-> "BRITIMP_INVENTARIO_ATM.csv", tabla |-> "PLXS_BRITIMP_INV_BILLETES_ATM_2025"],
      [archivo |-> "BRITIMP_EFECTATM.csv", tabla |-> "PLXS_BRITIMP_EFECTATM"],
      [archivo |-> "BRITIMP_BULTOS_ATM.csv", tabla |-> "PLXS_BRITIMP_BULTOS_ATM"]>>

\* the count run compares with: if cant_archivos != 5
CINCO == 5

\* what one puebla_tabla_* call can come to: "ok", the table filled; ValueError when
\* the file cannot be read or is empty; RuntimeError when the connection cannot be
\* made, when crea_tabla fails, or when desconecta fails after crea_tabla; any other
\* exception, raised before the connection is made
ResultadosCarga ==
    {"ok", "ValueError", "RuntimeError_conexion", "RuntimeError_tabla",
     "RuntimeError_desconecta", "Exception"}

\* the outcomes in which crea_tabla was called
ConIntento == {"ok", "RuntimeError_tabla", "RuntimeError_desconecta"}

\* the outcomes in which crea_tabla returned
ConTabla == {"ok", "RuntimeError_desconecta"}

\* buscar_log: <<>> for None, else the first of the possible names that is a file
buscar_log(a) ==
    IF ~a.carpeta \/ SelectSeq(posibles_nombres, LAMBDA n : n \in a.archivos) = <<>>
    THEN <<>>
    ELSE <<Head(SelectSeq(posibles_nombres, LAMBDA n : n \in a.archivos))>>

\* the count of every file of the folder
checkea_archivos_en_carpeta(a) ==
    IF ~a.carpeta THEN <<-1, <<"CARPETA_NO_EXISTE">>>>
    ELSE <<Cardinality(a.archivos), SelectSeq(ESPERADOS, LAMBDA n : n \notin a.archivos)>>

\* checkea_archivos_creados: <<ok, faltantes>>
checkea_archivos_creados(a) ==
    IF ~a.carpeta THEN <<-1, <<"CARPETA_NO_EXISTE">>>>
    ELSE <<Len(SelectSeq(ESPERADOS, LAMBDA n : n \in a.archivos)),
           SelectSeq(ESPERADOS, LAMBDA n : n \notin a.archivos)>>

\* enviar_email_error, enviar_email_exito: the notification handed to the mail module,
\* with the log attached when there is one; an exception of the mail module is caught
\* and printed, and enviado tells whether the mail went out
Correo(clase, a, enviado) ==
    [clase |-> clase, adjunto |-> buscar_log(a) # <<>>, enviado |-> enviado]

\* the k-th load with its exception swallowed: the run goes on to the next load
tras_carga_sigue(r, k, resultado) ==
    [r EXCEPT !.intentos = IF resultado \in ConIntento THEN Append(@, CARGAS[k].tabla) ELSE @,
              !.pobladas = IF resultado \in ConTabla THEN Append(@, CARGAS[k].tabla) ELSE @,
              !.hechas = k]

\* the k-th load of the try block: what the run has done after it; excepcion is the
\* exception that takes the run out of the try block, "" when the call returned
tras_carga(r, k, resultado) ==
    [r EXCEPT !.intentos = IF resultado \in ConIntento THEN Append(@, CARGAS[k].tabla) ELSE @,
              !.pobladas = IF resultado \in ConTabla THEN Append(@, CARGAS[k].tabla) ELSE @,
              !.hechas = k,
              !.excepcion = IF resultado = "ok" THEN "" ELSE resultado]

\* a file of the folder that is none of the expected ones
N_OTRO == "BRITIMP_BULTOS_BCO.csv"

ArchivosPosibles == {ESPERADOS[i] : i \in 1..Len(ESPERADOS)} \cup {posibles_nombres[1], N_OTRO}

\* the folder of the date: missing, or there with some of the files
EntornosRun ==
    {[carpeta |-> FALSE, archivos |-> {}]}
        \cup {[carpeta |-> TRUE, archivos |-> s] : s \in SUBSET ArchivosPosibles}

InitRun ==
    /\ fn = "run"
    /\ args \in EntornosRun
    /\ ret = [hechas |-> 0, intentos |-> <<>>, pobladas |-> <<>>, excepcion |-> "",
              correos |-> <<>>]
    /\ pc_fn = "entrada"
    /\ tipo = ""
    /\ SinParser
    /\ SinMain
    /\ SinDf
    /\ SinSaldos
    /\ SinBcoMas

PasoRun(r, posicion) ==
    /\ ret' = r
    /\ pc_fn' = posicion
    /\ UNCHANGED <<varsParser, varsMain, varsDf, varsSaldos, varsBcoMas, fn, args>>

\* run up to the try block: the files are counted; with a count other than 5 the error
\* notification is sent and the run returns
RunChequea ==
    /\ fn = "run"
    /\ pc_fn = "entrada"
    /\ IF checkea_archivos_creados(args)[1] # CINCO
       THEN \E enviado \in BOOLEAN :
                PasoRun([ret EXCEPT !.correos = Append(@, Correo("error", args, enviado))],
                        "salida")
       ELSE PasoRun(ret, "cargas")

\* the next puebla_tabla_* call of the try block; when it raises, the handler of run:
\* enviar_email_error and return
RunCarga ==
    /\ fn = "run"
    /\ pc_fn = "cargas"
    /\ ret.hechas < Len(CARGAS)
    /\ \E resultado \in ResultadosCarga, enviado \in BOOLEAN :
           IF tras_carga(ret, ret.hechas + 1, resultado).excepcion # ""
           THEN PasoRun([tras_carga(ret, ret.hechas + 1, resultado)
                            EXCEPT !.correos = Append(@, Correo("error", args, enviado))],
                        "salida")
           ELSE PasoRun(tras_carga(ret, ret.hechas + 1, resultado), "cargas")

\* after the try block: enviar_email_exito
RunExito ==
    /\ fn = "run"
    /\ pc_fn = "cargas"
    /\ ret.hechas = Len(CARGAS)
    /\ \E enviado \in BOOLEAN :
           PasoRun([ret EXCEPT !.correos = Append(@, Correo("exito", args, enviado))], "salida")

NextRun == RunChequea \/ RunCarga \/ RunExito

SpecRun == InitRun /\ [][NextRun]_vars

\* the five expected files are in the folder of the date
EstanLosCinco ==
    args.carpeta /\ \A i \in 1..Len(ESPERADOS) : ESPERADOS[i] \in args.archivos

\* C38: the upload run attempts no table load unless all five expected consolidated
\* files are present for the date; when any is missing it sends an error notification
\* and ends without loading any table
C38_SinArchivosSinCarga ==
    fn = "run" =>
        /\ (ret.intentos # <<>> \/ ret.pobladas # <<>> \/ pc_fn = "cargas")
               => EstanLosCinco
        /\ (pc_fn = "salida" /\ ~EstanLosCinco)
               => /\ Len(ret.correos) = 1
                  /\ ret.correos[1].clase = "error"
                  /\ ret.intentos = <<>>
                  /\ ret.pobladas = <<>>

\* four of the five files, the log and another file are in the folder: the run has
\* ended with the error notification and no load
C38_Testigo ==
    /\ fn = "run"
    /\ pc_fn = "salida"
    /\ args.carpeta
    /\ args.archivos = ArchivosPosibles \ {"BRITIMP_EFECTATM.csv"}
    /\ Len(ret.correos) = 1
    /\ ret.correos[1].clase = "error"
    /\ ret.correos[1].adjunto
    /\ ret.intentos = <<>>

\* the folder of the date does not exist
C38_TestigoSinCarpeta ==
    /\ fn = "run"
    /\ pc_fn = "salida"
    /\ ~args.carpeta
    /\ Len(ret.correos) = 1
    /\ ret.correos[1].clase = "error"
    /\ ~ret.correos[1].adjunto


\* the tables of the first n loads of the try block, in its order
TablasHasta(n) == [k \in 1..n |-> CARGAS[k].tabla]

HayCorreo(clase) == \E i \in 1..Len(ret.correos) : ret.correos[i].clase = clase

\* C39: the upload run sends the success notification only after all five table loads
\* have completed without error; if any load raises, an error notification is sent
\* instead, no later load is attempted, and the success notification is never sent in
\* that run
C39_ExitoSoloTrasLasCinco ==
    fn = "run" =>
        /\ HayCorreo("exito")
               => /\ ret.hechas = Len(CARGAS)
                  /\ ret.excepcion = ""
                  /\ ret.pobladas = TablasHasta(Len(CARGAS))
                  /\ ~HayCorreo("error")
        /\ ret.excepcion # ""
               => /\ pc_fn = "salida"
                  /\ Len(ret.correos) = 1
                  /\ ret.correos[1].clase = "error"
                  /\ ret.pobladas \in {TablasHasta(ret.hechas - 1), TablasHasta(ret.hechas)}
                  /\ \A i \in 1..Len(ret.intentos) :
                         \E k \in 1..ret.hechas : ret.intentos[i] = CARGAS[k].tabla

\* the five loads went through and the success notification is the only one
C39_Testigo ==
    /\ fn = "run"
    /\ pc_fn = "salida"
    /\ ret.pobladas = TablasHasta(Len(CARGAS))
    /\ ret.excepcion = ""
    /\ Len(ret.correos) = 1
    /\ ret.correos[1].clase = "exito"

\* crea_tabla failed in the third load: two tables are filled, the fourth and the fifth
\* were never tried, and the error notification is the only one
C39_TestigoError ==
    /\ fn = "run"
    /\ pc_fn = "salida"
    /\ ret.excepcion = "RuntimeError_tabla"
    /\ ret.hechas = 3
    /\ ret.pobladas = TablasHasta(2)
    /\ ret.intentos = TablasHasta(3)
    /\ Len(ret.correos) = 1
    /\ ret.correos[1].clase = "error"

\* the file of the first load could not be read: no table was touched
C39_TestigoValueError ==
    /\ fn = "run"
    /\ pc_fn = "salida"
    /\ ret.excepcion = "ValueError"
    /\ ret.hechas = 1
    /\ ret.intentos = <<>>
    /\ Len(ret.correos) = 1
    /\ ret.correos[1].clase = "error"

====
